---- MODULE Spec2Model ----
(***************************************************************************)
(* Portfolio optimisation and walk-forward backtest core of portfolio-app. *)
(*                                                                         *)
(*   - the rebalancing simulator: backend/app/backtests.py apply_rebalance *)
(*     and backend/app/analytics_pipeline.py _compute_rebalanced_returns   *)
(*   - the walk-forward validator: backend/app/backtesting.py              *)
(*     validate_walk_forward_window                                        *)
(*   - the allocation optimizer: backend/app/optimizers_v2.py              *)
(*                                                                         *)
(* Floating point values are modelled as exact rationals <<n, d>>; NaN is  *)
(* the pair <<0, 0>>.  Dates are day numbers of a calendar whose months    *)
(* all have DaysPerMonth days.                                             *)
(***************************************************************************)
EXTENDS Integers, Sequences, FiniteSets, TLC

(***************************************************************************)
(* Bounds of the model.                                                    *)
(***************************************************************************)
NAssets == 2
MaxRows == 3
MaxLead == 2
DaysPerMonth == 2
RetDen == 2
MaxPeriods == 67
MaxWfRows == 4
MaxTrain == 2
MaxTest == 2
WGrid == 4
MaxPoints == 2
MaxObs == 3
MaxBars == 3

(***************************************************************************)
(* Calendar constants.                                                     *)
(***************************************************************************)
MonthsPerQuarter == 3
MonthsPerYear == 12
BpsPerUnit == 10000

(***************************************************************************)
(* Strides of the walk-forward validator (backtesting.py:94-104).          *)
(***************************************************************************)
StrideD == 1
StrideW == 5
StrideM == 21
StrideQ == 63

\* trading days per year in the annualisation (backtesting.py:128-129)
TradingDays == 252

Assets == 1 .. NAssets

(***************************************************************************)
(* Exact rational arithmetic standing for float arithmetic.                *)
(***************************************************************************)
Abs(x) == IF x < 0 THEN -x ELSE x

RECURSIVE GCD(_, _)
GCD(a, b) == IF b = 0 THEN a ELSE GCD(b, a % b)

NaN == <<0, 0>>

IsFinite(x) == x[2] # 0

Norm(n, d) ==
  IF d = 0 THEN (IF n = 0 THEN NaN ELSE <<1, 0>>)
  ELSE LET g == GCD(Abs(n), Abs(d))
           s == IF d < 0 THEN -1 ELSE 1
       IN  <<(s * n) \div g, (s * d) \div g>>

Rat(n) == <<n, 1>>
Zero == Rat(0)
One == Rat(1)

\* the operations reduce by common factors before they multiply, so that
\* intermediate products stay small
RAdd(x, y) ==
  IF IsFinite(x) /\ IsFinite(y)
  THEN LET g == GCD(x[2], y[2])
       IN  Norm(x[1] * (y[2] \div g) + y[1] * (x[2] \div g), (x[2] \div g) * y[2])
  ELSE NaN
RNeg(x) == <<-x[1], x[2]>>
RSub(x, y) == RAdd(x, RNeg(y))
RMul(x, y) ==
  IF IsFinite(x) /\ IsFinite(y)
  THEN LET g1 == GCD(Abs(x[1]), y[2])
           g2 == GCD(Abs(y[1]), x[2])
       IN  Norm((x[1] \div g1) * (y[1] \div g2), (x[2] \div g2) * (y[2] \div g1))
  ELSE NaN
\* x / y as numpy divides floats: 0/0 is NaN and nothing is raised
RDiv(x, y) ==
  IF IsFinite(x) /\ IsFinite(y)
  THEN IF y[1] = 0 THEN Norm(x[1], 0)
       ELSE RMul(x, IF y[1] < 0 THEN <<-y[2], -y[1]>> ELSE <<y[2], y[1]>>)
  ELSE NaN
RAbs(x) == <<Abs(x[1]), x[2]>>
RLt(x, y) == IsFinite(x) /\ IsFinite(y) /\ RSub(x, y)[1] < 0
RLe(x, y) == IsFinite(x) /\ IsFinite(y) /\ RSub(x, y)[1] <= 0

RECURSIVE SumRange(_, _, _)
\* f[lo] + ... + f[hi], added in halves
SumRange(f, lo, hi) ==
  IF lo > hi THEN Zero
  ELSE IF lo = hi THEN f[lo]
  ELSE LET mid == (lo + hi) \div 2
       IN  RAdd(SumRange(f, lo, mid), SumRange(f, mid + 1, hi))

\* f[1] + ... + f[n]
SumTo(f, n) == SumRange(f, 1, n)

\* Series.sum() / ndarray.sum() over the asset axis
VecSum(v) == SumTo(v, NAssets)

\* Series.dot / row-wise weighted sum
Dot(r, w) == VecSum([a \in Assets |-> RMul(r[a], w[a])])

(***************************************************************************)
(* Calendar: pandas period of a date and the period-end labels that        *)
(* DataFrame.resample(freq).asfreq() puts in its index.                    *)
(***************************************************************************)
MonthOf(d) == d \div DaysPerMonth

\* Timestamp.to_period under "M", "Q", "A"/"Y"
PeriodOf(d, f) ==
  CASE f = "M" -> MonthOf(d)
    [] f = "Q" -> MonthOf(d) \div MonthsPerQuarter
    [] OTHER   -> MonthOf(d) \div MonthsPerYear

\* resample(f) labels each bin with the last calendar day of the period
IsPeriodEnd(d, f) == PeriodOf(d + 1, f) # PeriodOf(d, f)

DaysPerYear == DaysPerMonth * MonthsPerYear

(***************************************************************************)
(* Inputs: a returns DataFrame is a chronological sequence of rows, each   *)
(* with a date and one return per asset.                                   *)
(***************************************************************************)
\* a gain of 1 / RetDen and a total loss
AssetReturns == {Norm(1, RetDen), Norm(-RetDen, RetDen)}

\* rows in which every asset has the same return, and the row in which only
\* the first asset gains
RowReturns ==
  {[a \in Assets |-> r] : r \in AssetReturns}
    \cup {[a \in Assets |-> IF a = 1 THEN Norm(1, RetDen) ELSE Zero]}

\* consecutive rows are one day or one month apart
RowGaps == {1, DaysPerMonth}

StartDays == (DaysPerYear - MaxLead) .. (DaysPerYear - 1)

RECURSIVE Frames(_)
\* all returns frames of exactly n rows
Frames(n) ==
  IF n = 1
  THEN {<<[date |-> d, r |-> rr]>> : d \in StartDays, rr \in RowReturns}
  ELSE {Append(fr, [date |-> fr[Len(fr)].date + g, r |-> rr]) :
          fr \in Frames(n - 1), g \in RowGaps, rr \in RowReturns}

ReturnFrames == UNION {Frames(n) : n \in 1 .. MaxRows}

\* target weight vectors that sum to 1: equal weights and a tilt to asset 1
WeightVectors ==
  {[a \in Assets |-> Norm(1, NAssets)],
   [a \in Assets |-> IF a = 1 THEN Norm(2, NAssets + 1) ELSE Norm(1, NAssets + 1)]}

Frequencies == {"none", "monthly", "quarterly", "annual", "weekly"}
CostBpsValues == {0, 100}

VARIABLES
  fn,               \* which simulator runs
  returns,          \* the returns DataFrame
  weights,          \* target weights
  frequency,        \* rebalance frequency
  cost_bps,         \* transaction cost in basis points
  pc,               \* position in the simulator
  idx,              \* number of rows processed
  current_weights,  \* current (drifted) weights
  port_returns,     \* apply_rebalance: port_returns list
  turnover_series,  \* apply_rebalance: turnover_series list
  rebalance_log,    \* one record per reset to target: the row (0-based) whose return
                    \* is the first applied after it, and the turnover charged
  applied_weights,  \* per processed row, the weights its return was applied to
  portfolio_value,  \* _compute_rebalanced_returns: portfolio_value
  total_turnover,   \* _compute_rebalanced_returns: total_turnover
  result,           \* what the call returned or raised
  payload           \* backtest_analytics: the payload returned or the error raised

rbVars == <<fn, returns, weights, frequency, cost_bps, pc, idx, current_weights,
            port_returns, turnover_series, rebalance_log, applied_weights, portfolio_value,
            total_turnover, result, payload>>

VARIABLES
  wf_returns,         \* validate_walk_forward_window: the returns DataFrame
  training_results,   \* the list appended to at line 132
  testing_results,    \* the list appended to at line 146
  oos_returns_list,   \* the pooled out-of-sample returns of line 155
  n_periods,          \* validate_walk_forward_window: len(returns)
  train_window,
  test_window,
  rebalance_freq,     \* already upper-cased
  wf_pc,              \* position in validate_walk_forward_window
  rebalance_indices,  \* the list built at lines 94-104
  windows,            \* one record per iteration of the loop at line 116
  wf_result           \* the report returned or the exception raised

wfVars == <<wf_returns, training_results, testing_results, oos_returns_list,
           n_periods, train_window, test_window, rebalance_freq, wf_pc,
            rebalance_indices, windows, wf_result>>

VARIABLES
  opt_fn,               \* which optimizer entry point runs
  n_assets,
  cap,                  \* cap / max_weight
  min_weight,
  mu,                   \* annualised mean returns
  Sigma,                \* annualised covariance matrix
  points,               \* markowitz_frontier: number of target returns
  inst_current_weights, \* institutional_portfolio_optimizer: current_weights
  max_turnover,         \* institutional_portfolio_optimizer: max_turnover
  opt_pc,               \* position in the optimizer
  prob_min_status,      \* markowitz_frontier: prob_min.status
  prob_status,          \* prob.status of the latest other solve
  min_vol_weights,      \* markowitz_frontier: min_vol_weights
  target_idx,           \* markowitz_frontier: targets already tried
  frontier,             \* markowitz_frontier: frontier list
  max_sharpe_portfolio, \* markowitz_frontier: max_sharpe_portfolio
  opt_result            \* what the optimizer returned or raised

optVars == <<opt_fn, n_assets, cap, min_weight, mu, Sigma, points,
             inst_current_weights, max_turnover, opt_pc, prob_min_status,
             prob_status, min_vol_weights, target_idx, frontier,
             max_sharpe_portfolio, opt_result>>

VARIABLES
  rp_fn,         \* which risk parity function runs
  rp_n,          \* n = cov.shape[0]
  rp_Sigma,      \* the covariance matrix passed in
  rp_w,          \* w
  rp_iteration,  \* updates made so far
  rp_pc,         \* position in the function
  rp_result      \* the array returned

rpVars == <<rp_fn, rp_n, rp_Sigma, rp_w, rp_iteration, rp_pc, rp_result>>

VARIABLES
  call_fn,      \* the library function that is called
  call_args,    \* its arguments
  call_pc,      \* "start" before the call, "done" after it
  call_result   \* what the call returned or raised

callVars == <<call_fn, call_args, call_pc, call_result>>

VARIABLES
  rules,         \* evaluate_strategy_rules: the list of StrategyRule
  stop_loss,     \* stop_loss, None or a fraction
  take_profit,   \* take_profit, None or a fraction
  price,         \* the prices of the bars visited so far
  position,      \* position.iloc[0 .. i]
  entry_price,   \* entry_price, None or a price
  rules_pc       \* position in the function

ruleVars == <<rules, stop_loss, take_profit, price, position, entry_price, rules_pc>>

VARIABLES
  sim_request,      \* _simulate_strategy: initial_capital, max_position_size,
                    \* slippage_bps, commission_per_trade
  sim_idx,          \* idx of the loop over the dates
  cash,             \* cash
  shares,           \* shares
  sim_equity,       \* equity
  sim_entry_price,  \* entry_price
  trades,           \* the list of trades
  sim_pc            \* position in the function

simVars == <<sim_request, sim_idx, cash, shares, sim_equity, sim_entry_price, trades, sim_pc>>

libVars == <<callVars, ruleVars, simVars>>

vars == <<rbVars, payload, wfVars, optVars, rpVars, libVars>>

NoResult == [kind |-> "none"]

\* freq_map of apply_rebalance (backtests.py:124)
ApplyFreqMap == [monthly |-> "M", quarterly |-> "Q", annual |-> "A"]

\* freq_map.get(rebalance_freq, "M") of _compute_rebalanced_returns
PeriodFreq(f) ==
  CASE f = "monthly" -> "M"
    [] f = "quarterly" -> "Q"
    [] f = "annual" -> "Y"
    [] OTHER -> "M"

\* returns.dot(weights): one weighted return per row, at the target weights
WeightedReturns(fr, w) == [k \in 1 .. Len(fr) |-> Dot(fr[k].r, w)]

\* (1 + daily) * current_weights
GrossValues(daily, w) == [a \in Assets |-> RMul(RAdd(One, daily[a]), w[a])]

\* (current_weights - target_weights).abs().sum()
Turnover(cur, target) == VecSum([a \in Assets |-> RAbs(RSub(cur[a], target[a]))])

\* turnover * cost_bps / 10000
Cost(turnover, bps) == RMul(Norm(bps, BpsPerUnit), turnover)

\* the simulator is not running
RebalanceIdle ==
  /\ fn = "idle" /\ returns = <<>> /\ weights = <<>> /\ frequency = "none"
  /\ cost_bps = 0 /\ pc = "idle" /\ idx = 0 /\ current_weights = <<>>
  /\ port_returns = <<>> /\ turnover_series = <<>> /\ rebalance_log = <<>>
  /\ applied_weights = <<>> /\ portfolio_value = One /\ total_turnover = Zero
  /\ result = NoResult /\ payload = NoResult

\* the validator is not running
WalkForwardIdle ==
  /\ wf_returns = <<>> /\ training_results = <<>> /\ testing_results = <<>>
  /\ oos_returns_list = <<>>
  /\ n_periods = 0 /\ train_window = 0 /\ test_window = 0 /\ rebalance_freq = "M"
  /\ wf_pc = "idle" /\ rebalance_indices = <<>> /\ windows = <<>>
  /\ wf_result = NoResult

\* the optimizer is not running
OptimizerIdle ==
  /\ opt_fn = "idle" /\ n_assets = 0 /\ cap = Zero /\ min_weight = Zero
  /\ mu = <<>> /\ Sigma = <<>> /\ points = 0 /\ inst_current_weights = <<>>
  /\ max_turnover = Zero /\ opt_pc = "idle" /\ prob_min_status = "unsolved"
  /\ prob_status = "unsolved" /\ min_vol_weights = <<>> /\ target_idx = 0
  /\ frontier = <<>> /\ max_sharpe_portfolio = [kind |-> "None"]
  /\ opt_result = NoResult

\* no risk parity function is running
RiskParityIdle ==
  /\ rp_fn = "idle" /\ rp_n = 0 /\ rp_Sigma = <<>> /\ rp_w = <<>>
  /\ rp_iteration = 0 /\ rp_pc = "idle" /\ rp_result = NoResult

\* no library function is called
CallIdle ==
  /\ call_fn = "idle" /\ call_args = <<>> /\ call_pc = "idle" /\ call_result = NoResult

\* None
None == <<>>

\* evaluate_strategy_rules is not running
RulesIdle ==
  /\ rules = <<>> /\ stop_loss = None /\ take_profit = None /\ price = <<>>
  /\ position = <<>> /\ entry_price = None /\ rules_pc = "idle"

\* _simulate_strategy is not running
SimulateIdle ==
  /\ sim_request = <<>> /\ sim_idx = 0 /\ cash = Zero /\ shares = 0 /\ sim_equity = <<>>
  /\ sim_entry_price = None /\ trades = <<>> /\ sim_pc = "idle"

LibraryIdle == CallIdle /\ RulesIdle /\ SimulateIdle

RebalanceInit ==
  /\ LibraryIdle
  /\ RiskParityIdle
  /\ WalkForwardIdle
  /\ OptimizerIdle
  /\ fn \in {"apply_rebalance", "_compute_rebalanced_returns"}
  /\ returns \in ReturnFrames
  /\ weights \in WeightVectors
  /\ frequency \in Frequencies
  /\ cost_bps \in CostBpsValues
  /\ pc = "start"
  /\ idx = 0
  /\ current_weights = weights
  /\ port_returns = <<>>
  /\ turnover_series = <<>>
  /\ rebalance_log = <<>>
  /\ applied_weights = <<>>
  /\ portfolio_value = One
  /\ total_turnover = Zero
  /\ result = NoResult
  /\ payload = NoResult

(***************************************************************************)
(* apply_rebalance (backtests.py:118-150)                                  *)
(***************************************************************************)
\* frequency none: weighted returns at the target weights, zero turnover
\* the series if every row after the first were charged a full turnover
NoTurnoverChargesRows(fr) == [k \in 1 .. Len(fr) |-> IF k = 1 THEN Zero ELSE One]

\* line 122: pd.Series(0.0, index=returns.index)
NoTurnover(fr) == [k \in 1 .. Len(fr) |-> Zero]

ApplyNone ==
  /\ fn = "apply_rebalance" /\ pc = "start"
  /\ frequency = "none"
  /\ result' = [kind |-> "returned",
                returns |-> WeightedReturns(returns, weights),
                turnover |-> NoTurnover(returns)]
  /\ pc' = "done"
  /\ UNCHANGED <<fn, returns, weights, frequency, cost_bps, idx, current_weights,
                 port_returns, turnover_series, rebalance_log, applied_weights, portfolio_value,
                 total_turnover, payload, wfVars, optVars, rpVars, libVars>>

ApplyInvalidFrequency ==
  /\ fn = "apply_rebalance" /\ pc = "start"
  /\ frequency # "none"
  /\ frequency \notin DOMAIN ApplyFreqMap
  /\ result' = [kind |-> "HTTPException", status |-> 400]
  /\ pc' = "done"
  /\ UNCHANGED <<fn, returns, weights, frequency, cost_bps, idx, current_weights,
                 port_returns, turnover_series, rebalance_log, applied_weights, portfolio_value,
                 total_turnover, payload, wfVars, optVars, rpVars, libVars>>

ApplyStart ==
  /\ fn = "apply_rebalance" /\ pc = "start"
  /\ frequency \in DOMAIN ApplyFreqMap
  /\ pc' = "loop"
  /\ UNCHANGED <<fn, returns, weights, frequency, cost_bps, idx, current_weights,
                 port_returns, turnover_series, rebalance_log, applied_weights, portfolio_value,
                 total_turnover, result, payload, wfVars, optVars, rpVars, libVars>>

\* date in rebalance_dates and returns.index.get_loc(date) != 0
IsRebalanceDate(fr, k, f) == IsPeriodEnd(fr[k].date, ApplyFreqMap[f]) /\ k # 1

\* lines 144-148: the period's return at the weights in force, then the drift
DriftedWeights(daily, w) ==
  LET gross == GrossValues(daily, w)
      total == VecSum(gross)
  IN  IF total # Zero THEN [a \in Assets |-> RDiv(gross[a], total)] ELSE w

\* one iteration of the loop on a rebalance date
ApplyRebalanceRow ==
  /\ fn = "apply_rebalance" /\ pc = "loop"
  /\ idx < Len(returns)
  /\ IsRebalanceDate(returns, idx + 1, frequency)
  /\ LET daily == returns[idx + 1].r
         turnover == Turnover(current_weights, weights)
         cost == Cost(turnover, cost_bps)
     IN  /\ turnover_series' = Append(turnover_series, turnover)
         /\ port_returns' = Append(Append(port_returns, RNeg(cost)), Dot(daily, weights))
         /\ current_weights' = DriftedWeights(daily, weights)
  /\ rebalance_log' = Append(rebalance_log,
                             [row |-> idx, turnover |-> Turnover(current_weights, weights)])
  /\ applied_weights' = Append(applied_weights, weights)
  /\ idx' = idx + 1
  /\ UNCHANGED <<fn, returns, weights, frequency, cost_bps, pc, portfolio_value,
                 total_turnover, result, payload, wfVars, optVars, rpVars, libVars>>

\* one iteration of the loop on any other date
ApplyHoldRow ==
  /\ fn = "apply_rebalance" /\ pc = "loop"
  /\ idx < Len(returns)
  /\ ~IsRebalanceDate(returns, idx + 1, frequency)
  /\ LET daily == returns[idx + 1].r
     IN  /\ turnover_series' = Append(turnover_series, Zero)
         /\ port_returns' = Append(port_returns, Dot(daily, current_weights))
         /\ current_weights' = DriftedWeights(daily, current_weights)
  /\ applied_weights' = Append(applied_weights, current_weights)
  /\ idx' = idx + 1
  /\ UNCHANGED <<fn, returns, weights, frequency, cost_bps, pc, rebalance_log,
                 portfolio_value, total_turnover, result, payload, wfVars, optVars, rpVars, libVars>>

\* pd.Series(data, index=returns.index) raises ValueError on a length mismatch
MakeSeries(data, fr) ==
  IF Len(data) = Len(fr) THEN [ok |-> TRUE, values |-> data]
  ELSE [ok |-> FALSE, values |-> <<>>]

ApplyReturn ==
  /\ fn = "apply_rebalance" /\ pc = "loop"
  /\ idx = Len(returns)
  /\ LET ps == MakeSeries(port_returns, returns)
         ts == MakeSeries(turnover_series, returns)
     IN  result' = IF ps.ok /\ ts.ok
                   THEN [kind |-> "returned", returns |-> ps.values, turnover |-> ts.values]
                   ELSE [kind |-> "ValueError"]
  /\ pc' = "done"
  /\ UNCHANGED <<fn, returns, weights, frequency, cost_bps, idx, current_weights,
                 port_returns, turnover_series, rebalance_log, applied_weights, portfolio_value,
                 total_turnover, payload, wfVars, optVars, rpVars, libVars>>

(***************************************************************************)
(* _compute_rebalanced_returns (analytics_pipeline.py:408-476)             *)
(***************************************************************************)
\* rebalance_freq none: weighted returns at the target weights; the second
\* and third components of the tuple are the float 0.0
ComputeNone ==
  /\ fn = "_compute_rebalanced_returns" /\ pc = "start"
  /\ frequency = "none"
  /\ result' = [kind |-> "returned",
                net_returns |-> WeightedReturns(returns, weights),
                total_turnover |-> Zero,
                gross_is_series |-> FALSE,
                gross_returns |-> <<>>]
  /\ pc' = "done"
  /\ UNCHANGED <<fn, returns, weights, frequency, cost_bps, idx, current_weights,
                 port_returns, turnover_series, rebalance_log, applied_weights, portfolio_value,
                 total_turnover, payload, wfVars, optVars, rpVars, libVars>>

ComputeStart ==
  /\ fn = "_compute_rebalanced_returns" /\ pc = "start"
  /\ frequency # "none"
  /\ pc' = "row"
  /\ UNCHANGED <<fn, returns, weights, frequency, cost_bps, idx, current_weights,
                 port_returns, turnover_series, rebalance_log, applied_weights, portfolio_value,
                 total_turnover, result, payload, wfVars, optVars, rpVars, libVars>>

\* returns_df['period'] of row k (1-based)
RowPeriod(fr, k, f) == PeriodOf(fr[k].date, PeriodFreq(f))

\* row k is the last row of its groupby('period') group
EndsGroup(fr, k, f) == k = Len(fr) \/ RowPeriod(fr, k + 1, f) # RowPeriod(fr, k, f)

\* weights * (1 + daily_returns.values)
AssetValues(daily, w) == GrossValues(daily, w)

\* asset_values / asset_values.sum(): numpy yields NaN for 0/0
DriftedWeightsNumpy(daily, w) ==
  LET asset_values == AssetValues(daily, w)
  IN  [a \in Assets |-> RDiv(asset_values[a], VecSum(asset_values))]

\* lines 446-452: one row of the current group
ComputeRow ==
  /\ fn = "_compute_rebalanced_returns" /\ pc = "row"
  /\ idx < Len(returns)
  /\ LET daily == returns[idx + 1].r
     IN  /\ portfolio_value' = RMul(portfolio_value, VecSum(AssetValues(daily, current_weights)))
         /\ current_weights' = DriftedWeightsNumpy(daily, current_weights)
  /\ applied_weights' = Append(applied_weights, current_weights)
  /\ idx' = idx + 1
  /\ pc' = IF EndsGroup(returns, idx + 1, frequency) THEN "group_end" ELSE "row"
  /\ UNCHANGED <<fn, returns, weights, frequency, cost_bps, port_returns,
                 turnover_series, rebalance_log, total_turnover, result, payload, wfVars, optVars, rpVars, libVars>>

\* lines 455-464: rebalance at the end of every period but the last
ComputeGroupRebalance ==
  /\ fn = "_compute_rebalanced_returns" /\ pc = "group_end"
  /\ RowPeriod(returns, idx, frequency) # RowPeriod(returns, Len(returns), frequency)
  /\ LET turnover == Turnover(current_weights, weights)
         cost == Cost(turnover, cost_bps)
     IN  /\ total_turnover' = RAdd(total_turnover, turnover)
         /\ portfolio_value' = RMul(portfolio_value, RSub(One, cost))
  /\ current_weights' = weights
  /\ rebalance_log' = Append(rebalance_log,
                             [row |-> idx, turnover |-> Turnover(current_weights, weights)])
  /\ pc' = "row"
  /\ UNCHANGED <<fn, returns, weights, frequency, cost_bps, idx, port_returns,
                 turnover_series, applied_weights, result, payload, wfVars, optVars, rpVars, libVars>>

\* the last period is not rebalanced
ComputeGroupLast ==
  /\ fn = "_compute_rebalanced_returns" /\ pc = "group_end"
  /\ RowPeriod(returns, idx, frequency) = RowPeriod(returns, Len(returns), frequency)
  /\ pc' = "row"
  /\ UNCHANGED <<fn, returns, weights, frequency, cost_bps, idx, current_weights,
                 port_returns, turnover_series, rebalance_log, applied_weights, portfolio_value,
                 total_turnover, result, payload, wfVars, optVars, rpVars, libVars>>

\* lines 470-474: gross returns minus the average cost per period
NetReturns(fr, w, turnover, bps) ==
  LET gross == WeightedReturns(fr, w)
      periods == Len(fr)
      avg_cost_per_day == IF periods > 0 THEN RDiv(Cost(turnover, bps), Rat(periods)) ELSE Zero
  IN  [k \in 1 .. Len(fr) |-> RSub(gross[k], avg_cost_per_day)]

ComputeReturn ==
  /\ fn = "_compute_rebalanced_returns" /\ pc = "row"
  /\ idx = Len(returns)
  /\ result' = [kind |-> "returned",
                net_returns |-> NetReturns(returns, weights, total_turnover, cost_bps),
                total_turnover |-> total_turnover,
                gross_is_series |-> TRUE,
                gross_returns |-> WeightedReturns(returns, weights)]
  /\ pc' = "done"
  /\ UNCHANGED <<fn, returns, weights, frequency, cost_bps, idx, current_weights,
                 port_returns, turnover_series, rebalance_log, applied_weights, portfolio_value,
                 total_turnover, payload, wfVars, optVars, rpVars, libVars>>

RECURSIVE Growth(_)
\* (1 + port).prod()
Growth(series) ==
  IF Len(series) = 0 THEN One
  ELSE RMul(RAdd(One, series[1]), Growth(Tail(series)))

\* _summary, lines 139-140: cagr = (1 + total_return) ** (252 / len(port)) - 1,
\* kept as the series it is computed from; its growth factor is Growth(of)
Cagr(series) == [of |-> series, periods |-> Len(series)]

\* backtest_analytics, lines 527-531 and 533 with trading_cost_bps > 0 and
\* frequency none: gross_returns is the float 0.0 and _summary reads
\* port.empty of it
BacktestGrossNotSeries ==
  /\ fn = "_compute_rebalanced_returns" /\ pc = "done"
  /\ result.kind = "returned"
  /\ cost_bps > 0
  /\ ~result.gross_is_series
  /\ payload' = [kind |-> "AttributeError"]
  /\ pc' = "reported"
  /\ UNCHANGED <<fn, returns, weights, frequency, cost_bps, idx, current_weights,
                 port_returns, turnover_series, rebalance_log, applied_weights, portfolio_value,
                 total_turnover, result, wfVars, optVars, rpVars, libVars>>

\* lines 527-575 with trading_cost_bps > 0: gross_cagr and net_cagr are reported
BacktestWithCosts ==
  /\ fn = "_compute_rebalanced_returns" /\ pc = "done"
  /\ result.kind = "returned"
  /\ cost_bps > 0
  /\ result.gross_is_series
  /\ payload' = [kind |-> "returned",
                 cagr |-> Cagr(result.net_returns),
                 total_turnover |-> result.total_turnover,
                 has_gross |-> TRUE,
                 gross_cagr |-> Cagr(result.gross_returns),
                 net_cagr |-> Cagr(result.net_returns)]
  /\ pc' = "reported"
  /\ UNCHANGED <<fn, returns, weights, frequency, cost_bps, idx, current_weights,
                 port_returns, turnover_series, rebalance_log, applied_weights, portfolio_value,
                 total_turnover, result, wfVars, optVars, rpVars, libVars>>

\* lines 527-575 with trading_cost_bps = 0: gross_summary is {}
BacktestWithoutCosts ==
  /\ fn = "_compute_rebalanced_returns" /\ pc = "done"
  /\ result.kind = "returned"
  /\ cost_bps = 0
  /\ payload' = [kind |-> "returned",
                 cagr |-> Cagr(result.net_returns),
                 total_turnover |-> result.total_turnover,
                 has_gross |-> FALSE]
  /\ pc' = "reported"
  /\ UNCHANGED <<fn, returns, weights, frequency, cost_bps, idx, current_weights,
                 port_returns, turnover_series, rebalance_log, applied_weights, portfolio_value,
                 total_turnover, result, wfVars, optVars, rpVars, libVars>>

RebalanceNext ==
  \/ ApplyNone
  \/ ApplyInvalidFrequency
  \/ ApplyStart
  \/ ApplyRebalanceRow
  \/ ApplyHoldRow
  \/ ApplyReturn
  \/ ComputeNone
  \/ ComputeStart
  \/ ComputeRow
  \/ ComputeGroupRebalance
  \/ ComputeGroupLast
  \/ ComputeReturn
  \/ BacktestGrossNotSeries
  \/ BacktestWithCosts
  \/ BacktestWithoutCosts

SpecRebalance == RebalanceInit /\ [][RebalanceNext]_vars

(***************************************************************************)
(* Properties of the rebalancing simulator.                                *)
(***************************************************************************)
PeriodicFrequencies == {"monthly", "quarterly", "annual"}
KnownFrequencies == PeriodicFrequencies \cup {"none"}

LoggedRows == {rebalance_log[j].row : j \in DOMAIN rebalance_log}

\* the calendar frequency either simulator groups dates by
CalendarFreq == IF fn = "apply_rebalance" /\ frequency \in DOMAIN ApplyFreqMap
                THEN ApplyFreqMap[frequency] ELSE PeriodFreq(frequency)

\* rows (0-based) that are the first observation of a calendar period after the first
FirstObservations(fr, pf) ==
  {k \in 1 .. Len(fr) - 1 : PeriodOf(fr[k + 1].date, pf) # PeriodOf(fr[k].date, pf)}

\* turnover charged at row k (0-based), zero when no rebalance took place there
ChargedTurnover(k) ==
  IF \E j \in DOMAIN rebalance_log : rebalance_log[j].row = k
  THEN (CHOOSE e \in {rebalance_log[j] : j \in DOMAIN rebalance_log} : e.row = k).turnover
  ELSE Zero

\* the net return series a finished call handed back
NetSeries == IF fn = "apply_rebalance" THEN result.returns ELSE result.net_returns

RECURSIVE DriftedFromStart(_, _, _)
\* the weights in force at row k (1-based) when w drifts from row 1 and is never reset:
\* w_i (1 + r_i) / sum_j w_j (1 + r_j) after each row
DriftedFromStart(fr, w, k) ==
  IF k = 1 THEN w
  ELSE LET prev == DriftedFromStart(fr, w, k - 1)
           gross == [a \in Assets |-> RMul(RAdd(One, fr[k - 1].r[a]), prev[a])]
       IN  [a \in Assets |-> RDiv(gross[a], VecSum(gross))]

\* C1: for every rebalance frequency and any cost_bps, apply_rebalance returns a
\* return series and a turnover series with exactly one entry per row of the
\* returns matrix, also when rebalance events fall inside the horizon.
C1_OneEntryPerRow ==
  (fn = "apply_rebalance" /\ pc = "done" /\ frequency \in KnownFrequencies)
    => /\ result.kind = "returned"
       /\ Len(result.returns) = Len(returns)
       /\ Len(result.turnover) = Len(returns)

\* C4: a rebalance event occurs exactly at the first observation of each
\* calendar period after the first period, and at no other row.
C4_RebalanceAtFirstObservation ==
  (pc = "done" /\ frequency \in PeriodicFrequencies)
    => LoggedRows = FirstObservations(returns, CalendarFreq)

\* C5: the net return of a rebalance row is that row's portfolio return minus
\* turnover * cost_bps / 10000, and the net return of every other row is the
\* gross portfolio return: the cost is charged once, not spread over the rows.
C5_CostChargedOnRebalanceRow ==
  (pc = "done" /\ frequency \in PeriodicFrequencies)
    => /\ result.kind = "returned"
       /\ Len(NetSeries) = Len(returns)
       /\ \A k \in 1 .. Len(returns) :
            NetSeries[k] = RSub(Dot(returns[k].r, applied_weights[k]),
                                Cost(ChargedTurnover(k - 1), cost_bps))

\* C6: the reported return of every holding period is computed from the
\* drifted weights; with frequency none the weights drift over the whole
\* horizon and are never reset to target.
C6_ReturnsFromDriftedWeights ==
  (/\ pc = "done" /\ result.kind = "returned"
   /\ frequency \in KnownFrequencies /\ cost_bps = 0
   /\ \A k \in 1 .. Len(returns), a \in Assets :
        IsFinite(DriftedFromStart(returns, weights, k)[a]))
    => \A k \in 1 .. Len(returns) :
         NetSeries[k] = Dot(returns[k].r,
                            IF frequency = "none"
                            THEN DriftedFromStart(returns, weights, k)
                            ELSE applied_weights[k])

(***************************************************************************)
(* validate_walk_forward_window (backtesting.py:47-199)                    *)
(***************************************************************************)
WalkForwardFrequencies == {"D", "W", "M", "Q", "Y"}

\* the stride if every frequency advanced by the monthly 21 periods
StrideAlwaysMonthly(f) == StrideM

\* lines 94-104: the step of the range for each frequency
Stride(f) ==
  CASE f = "D" -> StrideD
    [] f = "W" -> StrideW
    [] f = "M" -> StrideM
    [] f = "Q" -> StrideQ

\* list(range(start, stop, step))
RangeList(start, stop, step) ==
  LET count == IF stop > start THEN (stop - start + step - 1) \div step ELSE 0
  IN  [j \in 1 .. count |-> start + (j - 1) * step]

\* the list if the validator advanced by test_window instead of the stride
RebalanceIndicesByTestWindow(n, train, test, f) == RangeList(train, n - test, test)

\* lines 94-104: rebalance_indices for a valid frequency
RebalanceIndices(n, train, test, f) == RangeList(train, n - test, Stride(f))

Min(a, b) == IF a < b THEN a ELSE b
Max(a, b) == IF a > b THEN a ELSE b

\* the window if the test range started one period before the rebalance index
WindowAtTestStartsEarly(rebal_idx, n, train, test) ==
  LET train_end_idx == rebal_idx
      train_start_idx == Max(0, train_end_idx - train)
      test_start_idx == rebal_idx - 1
      test_end_idx == Min(n, test_start_idx + test)
  IN  [train_start |-> train_start_idx, train_end |-> train_end_idx,
       test_start |-> test_start_idx, test_end |-> test_end_idx]

\* lines 118-124: the train and test index ranges of the window at rebal_idx
WindowAt(rebal_idx, n, train, test) ==
  LET train_end_idx == rebal_idx
      train_start_idx == Max(0, train_end_idx - train)
      test_start_idx == rebal_idx
      test_end_idx == Min(n, test_start_idx + test)
  IN  [train_start |-> train_start_idx, train_end |-> train_end_idx,
       test_start |-> test_start_idx, test_end |-> test_end_idx]

\* returns.iloc[train_start_idx:train_end_idx] with the rebalance row included
TrainDataWithRebalanceRow(data, w) == SubSeq(data, w.train_start + 1, w.train_end + 1)

\* line 120: train_data = returns.iloc[train_start_idx:train_end_idx]
TrainData(data, w) == SubSeq(data, w.train_start + 1, w.train_end)

\* line 125: test_data = returns.iloc[test_start_idx:test_end_idx]
TestData(data, w) == SubSeq(data, w.test_start + 1, w.test_end)

\* Series.mean() of one column
ColMean(data, a) ==
  RDiv(SumTo([i \in 1 .. Len(data) |-> data[i][a]], Len(data)), Rat(Len(data)))

\* the square of Series.std() of one column (ddof = 1): NaN below two rows
ColVar(data, a) ==
  IF Len(data) < 2 THEN NaN
  ELSE LET m == ColMean(data, a)
           sq == [i \in 1 .. Len(data) |->
                    RMul(RSub(data[i][a], m), RSub(data[i][a], m))]
       IN  RDiv(SumTo(sq, Len(data)), Rat(Len(data) - 1))

\* Series.mean() over the columns
MeanOverAssets(v) == RDiv(VecSum(v), Rat(NAssets))

\* lines 128, 142: data.mean().mean() * 252
AnnualMeanReturn(data) ==
  RMul(MeanOverAssets([a \in Assets |-> ColMean(data, a)]), Rat(TradingDays))

\* lines 129, 143: data.std().mean() * np.sqrt(252) is the mean over the
\* columns of the square roots of these annualised variances; the volatility
\* is kept as the vector under the roots
AnnualVol(data) == [a \in Assets |-> RMul(ColVar(data, a), Rat(TradingDays))]

\* vol > 1e-10: false for NaN; a positive variance of the return grid is far
\* above the threshold
VolAboveThreshold(vol) == \E a \in Assets : IsFinite(vol[a]) /\ vol[a][1] > 0

\* lines 130, 144: mean / vol if vol > 1e-10 else 0.0, kept as the pair
\* <<numerator, volatility>>
SharpeOf(mean, vol) ==
  IF VolAboveThreshold(vol) THEN <<mean, vol>> ELSE <<Zero, <<>> >>

\* lines 128-138 and 142-152: the statistics entry of one window
WindowStats(data) ==
  [return |-> AnnualMeanReturn(data),
   vol |-> AnnualVol(data),
   sharpe |-> SharpeOf(AnnualMeanReturn(data), AnnualVol(data)),
   n_days |-> Len(data)]

RECURSIVE Flatten(_)
\* line 155: test_data.values.flatten().tolist(), row by row
Flatten(data) ==
  IF Len(data) = 0 THEN <<>>
  ELSE [a \in Assets |-> data[1][a]] \o Flatten(Tail(data))

RECURSIVE AllFrames(_)
\* all returns frames of exactly n rows, without dates
AllFrames(n) ==
  IF n = 0 THEN {<<>>}
  ELSE {Append(fr, rr) : fr \in AllFrames(n - 1), rr \in RowReturns}

\* three rows whose second row returns 70% or 90% of the first row's return:
\* with one training and one test row the degradation is exactly 0.3 or 0.1
BoundaryFrames ==
  {<<[a \in Assets |-> Norm(1, 2)], [a \in Assets |-> r], [a \in Assets |-> Norm(1, 2)]>> :
     r \in {Norm(7, 20), Norm(9, 20)}}

\* frames of up to MaxWfRows arbitrary rows, longer frames of one repeated
\* row that reach the weekly, monthly and quarterly strides, and the frames
\* at the thresholds of the overfitting label
WalkForwardFrames ==
  UNION {AllFrames(n) : n \in 0 .. MaxWfRows}
    \cup {[i \in 1 .. n |-> rr] : n \in 0 .. MaxPeriods, rr \in RowReturns}
    \cup BoundaryFrames

\* line 83: the guard of the insufficient-data error
InsufficientHistory(n, train, test) == train + test > n

\* the guard if the empty list were not checked
NoRebalancePointsUnchecked(indices) == FALSE

\* line 108: no rebalance point was generated
NoRebalancePoints(indices) == Len(indices) = 0

WalkForwardInit ==
  /\ LibraryIdle
  /\ RiskParityIdle
  /\ RebalanceIdle
  /\ OptimizerIdle
  /\ wf_returns \in WalkForwardFrames
  /\ training_results = <<>>
  /\ testing_results = <<>>
  /\ oos_returns_list = <<>>
  /\ n_periods = Len(wf_returns)
  /\ train_window \in 1 .. MaxTrain
  /\ test_window \in 1 .. MaxTest
  /\ rebalance_freq \in WalkForwardFrequencies
  /\ wf_pc = "start"
  /\ rebalance_indices = <<>>
  /\ windows = <<>>
  /\ wf_result = NoResult

\* lines 83-88
WFInsufficientData ==
  /\ wf_pc = "start"
  /\ InsufficientHistory(n_periods, train_window, test_window)
  /\ wf_result' = [kind |-> "HTTPException", status |-> 400, detail |-> "Insufficient data"]
  /\ wf_pc' = "done"
  /\ UNCHANGED <<wf_returns, training_results, testing_results, oos_returns_list,
                 n_periods, train_window, test_window, rebalance_freq,
                 rebalance_indices, windows, rbVars, optVars, rpVars, libVars>>

\* lines 105-106
WFInvalidFrequency ==
  /\ wf_pc = "start"
  /\ ~InsufficientHistory(n_periods, train_window, test_window)
  /\ rebalance_freq \notin {"D", "W", "M", "Q"}
  /\ wf_result' = [kind |-> "HTTPException", status |-> 400, detail |-> "Invalid rebalance frequency"]
  /\ wf_pc' = "done"
  /\ UNCHANGED <<wf_returns, training_results, testing_results, oos_returns_list,
                 n_periods, train_window, test_window, rebalance_freq,
                 rebalance_indices, windows, rbVars, optVars, rpVars, libVars>>

\* lines 94-104 and 108-112: the stride yields no rebalance point
WFNoRebalancePoints ==
  /\ wf_pc = "start"
  /\ ~InsufficientHistory(n_periods, train_window, test_window)
  /\ rebalance_freq \in {"D", "W", "M", "Q"}
  /\ NoRebalancePoints(RebalanceIndices(n_periods, train_window, test_window, rebalance_freq))
  /\ wf_result' = [kind |-> "HTTPException", status |-> 400, detail |-> "No valid rebalance points"]
  /\ wf_pc' = "done"
  /\ UNCHANGED <<wf_returns, training_results, testing_results, oos_returns_list,
                 n_periods, train_window, test_window, rebalance_freq,
                 rebalance_indices, windows, rbVars, optVars, rpVars, libVars>>

\* lines 94-104: the loop is entered with a non-empty list
WFStart ==
  /\ wf_pc = "start"
  /\ ~InsufficientHistory(n_periods, train_window, test_window)
  /\ rebalance_freq \in {"D", "W", "M", "Q"}
  /\ LET indices == RebalanceIndices(n_periods, train_window, test_window, rebalance_freq)
     IN  /\ ~NoRebalancePoints(indices)
         /\ rebalance_indices' = indices
  /\ wf_pc' = "loop"
  /\ UNCHANGED <<wf_returns, training_results, testing_results, oos_returns_list,
                 n_periods, train_window, test_window, rebalance_freq,
                 windows, wf_result, rbVars, optVars, rpVars, libVars>>

\* lines 116-155: one iteration of the loop over rebalance_indices
WFWindow ==
  /\ wf_pc = "loop"
  /\ Len(windows) < Len(rebalance_indices)
  /\ LET w == WindowAt(rebalance_indices[Len(windows) + 1],
                       n_periods, train_window, test_window)
         test_data == TestData(wf_returns, w)
     IN  /\ windows' = Append(windows, w)
         /\ training_results' =
              Append(training_results, WindowStats(TrainData(wf_returns, w)))
         /\ testing_results' =
              IF Len(test_data) > 0
              THEN Append(testing_results, WindowStats(test_data))
              ELSE testing_results
         /\ oos_returns_list' = oos_returns_list \o Flatten(test_data)
  /\ UNCHANGED <<wf_returns, n_periods, train_window, test_window, rebalance_freq, wf_pc,
                 rebalance_indices, wf_result, rbVars, optVars, rpVars, libVars>>

\* np.mean([r["return"] for r in results])
AvgReturn(results) ==
  RDiv(SumTo([i \in 1 .. Len(results) |-> results[i].return], Len(results)),
       Rat(Len(results)))

\* lines 172-178: performance_degradation
Degradation(train, test) ==
  IF Len(train) > 0 /\ Len(test) > 0
  THEN LET avg_train_return == AvgReturn(train)
           avg_test_return == AvgReturn(test)
       IN  IF avg_train_return # Zero
           THEN RDiv(RSub(avg_train_return, avg_test_return), RAbs(avg_train_return))
           ELSE Zero
  ELSE Zero

\* the thresholds 0.1 and 0.3 of lines 181 and 183
LowBelow == Norm(1, 10)
MediumBelow == Norm(3, 10)

\* the label if a degradation at a threshold stayed in the lower bucket
OverfittingInclusive(degradation) ==
  IF RLe(degradation, LowBelow) THEN "low"
  ELSE IF RLe(degradation, MediumBelow) THEN "medium"
  ELSE "high"

\* lines 180-186: overfitting_indicator
Overfitting(degradation) ==
  IF RLt(degradation, LowBelow) THEN "low"
  ELSE IF RLt(degradation, MediumBelow) THEN "medium"
  ELSE "high"

\* lines 158-168: out_of_sample_annual_return, out_of_sample_volatility,
\* out_of_sample_sharpe and max_drawdown_oos are computed from the array
\* np.array(oos_returns_list), and are 0.0 for an empty list; the entry keeps
\* the array they are computed from
OutOfSample(oos) == [of |-> oos, periods |-> Len(oos)]

\* lines 157-199
WFReturn ==
  /\ wf_pc = "loop"
  /\ Len(windows) = Len(rebalance_indices)
  /\ wf_result' = [kind |-> "returned",
                   windows |-> windows,
                   training_performance |-> training_results,
                   testing_performance |-> testing_results,
                   out_of_sample |-> OutOfSample(oos_returns_list),
                   performance_degradation |-> Degradation(training_results, testing_results),
                   overfitting_indicator |->
                     Overfitting(Degradation(training_results, testing_results)),
                   rebalance_count |-> Len(rebalance_indices)]
  /\ wf_pc' = "done"
  /\ UNCHANGED <<wf_returns, training_results, testing_results, oos_returns_list,
                 n_periods, train_window, test_window, rebalance_freq,
                 rebalance_indices, windows, rbVars, optVars, rpVars, libVars>>

WalkForwardNext ==
  \/ WFInsufficientData
  \/ WFInvalidFrequency
  \/ WFNoRebalancePoints
  \/ WFStart
  \/ WFWindow
  \/ WFReturn

SpecWalkForward == WalkForwardInit /\ [][WalkForwardNext]_vars

\* the validator on the frames of up to MaxWfRows arbitrary rows
WalkForwardDataInit == WalkForwardInit /\ Len(wf_returns) <= MaxWfRows

SpecWalkForwardData == WalkForwardDataInit /\ [][WalkForwardNext]_vars

(***************************************************************************)
(* Properties of the walk-forward validator.                               *)
(***************************************************************************)
ValidFrequency == rebalance_freq \in {"D", "W", "M", "Q"}

IndexRange(lo, hi) == lo .. (hi - 1)

\* C2: in every generated window test_start equals train_end, the train range
\* [train_start, train_end) and the test range [test_start, test_end) share no
\* period, and train_start and train_end never decrease from one window to the next.
C2_TrainTestDisjointAndForward ==
  \A j \in DOMAIN windows :
    /\ windows[j].test_start = windows[j].train_end
    /\ IndexRange(windows[j].train_start, windows[j].train_end)
         \cap IndexRange(windows[j].test_start, windows[j].test_end) = {}
    /\ j > 1 => /\ windows[j - 1].train_start <= windows[j].train_start
                /\ windows[j - 1].train_end <= windows[j].train_end

C2_Witness ==
  /\ wf_pc = "done" /\ wf_result.kind = "returned"
  /\ Len(windows) >= 2
  /\ windows[2].train_start > windows[1].train_start

\* C3 as stated: the validator slides by test_window, so window k+1's
\* test_start is not before window k's test_end.
C3_TestRangesDoNotOverlap ==
  \A j \in DOMAIN windows :
    j > 1 => windows[j].test_start >= windows[j - 1].test_end

\* C3 amended: the validator slides by the stride of rebalance_freq; window
\* k+1's test_start is window k's test_start plus the stride, and it is not
\* before window k's test_end exactly when the stride is at least test_window.
C3_SlidesByStride ==
  \A j \in DOMAIN windows :
    j > 1 => /\ windows[j].test_start = windows[j - 1].test_start + Stride(rebalance_freq)
             /\ (windows[j].test_start >= windows[j - 1].test_end)
                  <=> (Stride(rebalance_freq) >= test_window)

C3_Witness ==
  /\ wf_pc = "done" /\ wf_result.kind = "returned"
  /\ Len(windows) >= 2
  /\ windows[2].test_start < windows[1].test_end

\* the frame with row number k (counted from 1) replaced by the row rr
WithRow(data, k, rr) == [data EXCEPT ![k] = rr]

\* C11: the training return, volatility and Sharpe reported for a window
\* depend only on the rows with index below the window's train_end: replacing
\* any row at or after train_end by any other row leaves the entry that the
\* validator has just appended for that window unchanged.
C11_NoLookAhead ==
  LET j == Len(training_results)
  IN  j > 0 =>
        \A k \in (windows[j].train_end + 1) .. Len(wf_returns) :
          \A rr \in RowReturns :
            WindowStats(TrainData(WithRow(wf_returns, k, rr), windows[j]))
              = training_results[j]

C11_Witness ==
  /\ wf_pc = "done" /\ wf_result.kind = "returned"
  /\ wf_result.training_performance[1].n_days >= 2
  /\ VolAboveThreshold(wf_result.training_performance[1].vol)
  /\ wf_returns[windows[1].train_end + 1] # wf_returns[windows[1].train_end]

\* the stride positions i = train_window + k * stride with i + test_window <= n_periods
StridePositions ==
  {i \in train_window .. n_periods :
     /\ (i - train_window) % Stride(rebalance_freq) = 0
     /\ i + test_window <= n_periods}

\* C9: a window is produced at every stride position i, from i = train_window,
\* with i + test_window <= n_periods; when train_window + test_window equals
\* n_periods there is exactly one window and no error; every test window has
\* exactly test_window periods.
C9_WindowAtEveryStridePosition ==
  (/\ wf_pc = "done" /\ ValidFrequency
   /\ ~InsufficientHistory(n_periods, train_window, test_window))
    => /\ wf_result.kind = "returned"
       /\ {windows[j].test_start : j \in DOMAIN windows} = StridePositions
       /\ \A j \in DOMAIN windows :
            windows[j].test_end - windows[j].test_start = test_window

\* C10: the validator fails with an insufficient-data error, and returns no
\* report, whenever train_window + test_window exceeds the number of periods
\* or the stride yields zero windows; a returned report never has zero windows.
C10_NoEmptyReport ==
  wf_pc = "done"
    => /\ InsufficientHistory(n_periods, train_window, test_window)
            => /\ wf_result.kind = "HTTPException"
               /\ wf_result.detail = "Insufficient data"
       /\ (/\ ~InsufficientHistory(n_periods, train_window, test_window)
           /\ ValidFrequency
           /\ RangeList(train_window, n_periods - test_window, Stride(rebalance_freq)) = <<>>)
            => /\ wf_result.kind = "HTTPException"
               /\ wf_result.detail = "No valid rebalance points"
       /\ wf_result.kind = "returned"
            => /\ Len(wf_result.windows) >= 1
               /\ wf_result.rebalance_count >= 1

C10_Witness ==
  /\ wf_pc = "done"
  /\ wf_result.kind = "HTTPException"
  /\ wf_result.detail = "No valid rebalance points"
  /\ train_window + test_window <= n_periods

(***************************************************************************)
(* Allocation optimizer (optimizers_v2.py).  The inputs are the annualised *)
(* mean returns and covariance the entry points derive from the returns    *)
(* frame.  A cvxpy solve is a nondeterministic choice: it raises, or ends  *)
(* in a status that is not accepted, or ends in an accepted status with a  *)
(* minimiser of the objective over the feasible weights; weights are       *)
(* sought among the multiples of 1 / WGrid.                                *)
(***************************************************************************)
DefaultTransactionCostBps == 10

OptimizerFunctions ==
  {"min_variance_weights_cvxpy", "markowitz_frontier", "institutional_portfolio_optimizer"}

\* the statuses after which w.value is used
AcceptedStatuses == {"optimal", "optimal_inaccurate"}

GridLevels == {Norm(k, WGrid) : k \in 0 .. WGrid}

RECURSIVE IntSumTo(_, _)
IntSumTo(f, n) == IF n = 0 THEN 0 ELSE IntSumTo(f, n - 1) + f[n]

\* weight vectors on the grid with sum(w) == 1
BudgetWeights(n) ==
  {[i \in 1 .. n |-> Norm(k[i], WGrid)] :
     k \in {g \in [1 .. n -> 0 .. WGrid] : IntSumTo(g, n) = WGrid}}

\* w >= min_weight and w <= cap
InBox(w, n, lo, hi) == \A i \in 1 .. n : RLe(lo, w[i]) /\ RLe(w[i], hi)

\* cp.quad_form(w, Sigma)
Variance(w, S, n) ==
  SumTo([i \in 1 .. n |->
           SumTo([j \in 1 .. n |-> RMul(RMul(w[i], Rat(S[i][j])), w[j])], n)], n)

\* mu @ w
PortReturn(w, m, n) == SumTo([i \in 1 .. n |-> RMul(m[i], w[i])], n)

\* sum of |w_i - current_weights_i|
TurnoverTo(w, cur, n) == SumTo([i \in 1 .. n |-> RAbs(RSub(w[i], cur[i]))], n)

\* the result if the fallback divided by n + 1
EqualWeightsOffByOne(n) == [i \in 1 .. n |-> Norm(1, n + 1)]

\* np.array([1.0 / n] * n), np.ones(n_assets) / n_assets
EqualWeights(n) == [i \in 1 .. n |-> Norm(1, n)]

\* the minimisers over F of the objective obj (a function on weight vectors)
ArgMin(F, obj) == {w \in F : \A v \in F : RLe(obj[w], obj[v])}

\* prob.solve(solver=cp.OSQP): the outcomes of a solve over the feasible set F
SolveOutcomes(F, obj) ==
  {[status |-> st, value |-> w] : st \in AcceptedStatuses, w \in ArgMin(F, obj)}
    \cup {[status |-> IF F = {} THEN "infeasible" ELSE "user_limit", value |-> <<>>]}
    \cup {[status |-> "exception", value |-> <<>>]}

\* constraints [cp.sum(w) == 1, w >= min_weight, w <= cap]
BoxFeasible(n, lo, hi) == {w \in BudgetWeights(n) : InBox(w, n, lo, hi)}

\* the base constraints plus cp.sum(turnover_var) <= max_turnover
TurnoverFeasible(n, lo, hi, cur, limit) ==
  {w \in BoxFeasible(n, lo, hi) : RLe(TurnoverTo(w, cur, n), limit)}

\* the feasible set if the target problems left out the base constraints
TargetFeasibleWithoutBox(n, lo, hi, m, target) ==
  {w \in BudgetWeights(n) : RLe(target, PortReturn(w, m, n))}

\* the base constraints plus mu @ w >= target_ret
TargetFeasible(n, lo, hi, m, target) ==
  {w \in BoxFeasible(n, lo, hi) : RLe(target, PortReturn(w, m, n))}

\* portfolio_variance + transaction_costs of institutional_portfolio_optimizer
InstObjective(w, S, n, cur) ==
  RAdd(Variance(w, S, n),
       RMul(TurnoverTo(w, cur, n), Norm(DefaultTransactionCostBps, BpsPerUnit)))

MuChoices(n) == {[i \in 1 .. n |-> Rat(i)], [i \in 1 .. n |-> Rat(1)]}

SigmaChoices(n) ==
  {[i \in 1 .. n |-> [j \in 1 .. n |-> IF i = j THEN 1 ELSE 0]],
   [i \in 1 .. n |-> [j \in 1 .. n |-> IF i = j THEN i * i ELSE 0]]}

FirstAssetOnly(n) == [i \in 1 .. n |-> IF i = 1 THEN One ELSE Zero]

OptimizerInit ==
  /\ LibraryIdle
  /\ RiskParityIdle
  /\ RebalanceIdle
  /\ WalkForwardIdle
  /\ opt_fn \in OptimizerFunctions
  /\ n_assets \in 1 .. NAssets
  /\ cap \in GridLevels
  /\ min_weight \in GridLevels
  /\ mu \in MuChoices(n_assets)
  /\ Sigma \in SigmaChoices(n_assets)
  /\ points \in IF opt_fn = "markowitz_frontier" THEN 1 .. MaxPoints ELSE {0}
  /\ inst_current_weights \in
       IF opt_fn = "institutional_portfolio_optimizer"
       THEN {EqualWeights(n_assets), FirstAssetOnly(n_assets)} ELSE {<<>>}
  /\ max_turnover \in
       IF opt_fn = "institutional_portfolio_optimizer" THEN {Norm(1, 5), Rat(2)} ELSE {Zero}
  /\ opt_pc = "start"
  /\ prob_min_status = "unsolved"
  /\ prob_status = "unsolved"
  /\ min_vol_weights = <<>>
  /\ target_idx = 0
  /\ frontier = <<>>
  /\ max_sharpe_portfolio = [kind |-> "None"]
  /\ opt_result = NoResult

optInputs == <<opt_fn, n_assets, cap, min_weight, mu, Sigma, points,
               inst_current_weights, max_turnover>>

(***************************************************************************)
(* min_variance_weights_cvxpy (optimizers_v2.py:469-544)                   *)
(***************************************************************************)
MinVarOutcomes ==
  LET F == BoxFeasible(n_assets, min_weight, cap)
  IN  SolveOutcomes(F, [w \in F |-> Variance(w, Sigma, n_assets)])

\* line 544: return w.value
MinVarOptimal ==
  /\ opt_fn = "min_variance_weights_cvxpy" /\ opt_pc = "start"
  /\ \E o \in MinVarOutcomes :
       /\ o.status \in AcceptedStatuses
       /\ prob_status' = o.status
       /\ opt_result' = [kind |-> "returned", weights |-> o.value]
  /\ opt_pc' = "done"
  /\ UNCHANGED <<optInputs, prob_min_status, min_vol_weights, target_idx, frontier,
                 max_sharpe_portfolio, rbVars, wfVars, rpVars, libVars>>

\* lines 540-542: a status that is not accepted; a bare array of equal weights
MinVarFallbackStatus ==
  /\ opt_fn = "min_variance_weights_cvxpy" /\ opt_pc = "start"
  /\ \E o \in MinVarOutcomes :
       /\ o.status \notin AcceptedStatuses \cup {"exception"}
       /\ prob_status' = o.status
  /\ opt_result' = [kind |-> "returned", weights |-> EqualWeights(n_assets)]
  /\ opt_pc' = "done"
  /\ UNCHANGED <<optInputs, prob_min_status, min_vol_weights, target_idx, frontier,
                 max_sharpe_portfolio, rbVars, wfVars, rpVars, libVars>>

\* lines 534-538: the solve raised; a warning is logged, a bare array returned
MinVarFallbackException ==
  /\ opt_fn = "min_variance_weights_cvxpy" /\ opt_pc = "start"
  /\ \E o \in MinVarOutcomes :
       /\ o.status = "exception"
       /\ prob_status' = o.status
  /\ opt_result' = [kind |-> "returned", weights |-> EqualWeights(n_assets)]
  /\ opt_pc' = "done"
  /\ UNCHANGED <<optInputs, prob_min_status, min_vol_weights, target_idx, frontier,
                 max_sharpe_portfolio, rbVars, wfVars, rpVars, libVars>>

(***************************************************************************)
(* institutional_portfolio_optimizer (optimizers_v2.py:718-884), without   *)
(* sector limits and target return                                         *)
(***************************************************************************)
InstOutcomes ==
  LET F == TurnoverFeasible(n_assets, min_weight, cap, inst_current_weights, max_turnover)
  IN  SolveOutcomes(F, [w \in F |-> InstObjective(w, Sigma, n_assets, inst_current_weights)])

\* lines 856-884
InstOptimal ==
  /\ opt_fn = "institutional_portfolio_optimizer" /\ opt_pc = "start"
  /\ \E o \in InstOutcomes :
       /\ o.status \in AcceptedStatuses
       /\ prob_status' = o.status
       /\ opt_result' = [kind |-> "returned",
                         weights |-> o.value,
                         turnover |-> TurnoverTo(o.value, inst_current_weights, n_assets),
                         optimization_details |-> [status |-> o.status]]
  /\ opt_pc' = "done"
  /\ UNCHANGED <<optInputs, prob_min_status, min_vol_weights, target_idx, frontier,
                 max_sharpe_portfolio, rbVars, wfVars, rpVars, libVars>>

\* lines 845-854: equal weights, the status reported in optimization_details
InstFallbackStatus ==
  /\ opt_fn = "institutional_portfolio_optimizer" /\ opt_pc = "start"
  /\ \E o \in InstOutcomes :
       /\ o.status \notin AcceptedStatuses \cup {"exception"}
       /\ prob_status' = o.status
       /\ opt_result' = [kind |-> "returned",
                         weights |-> EqualWeights(n_assets),
                         turnover |-> Zero,
                         optimization_details |-> [status |-> o.status]]
  /\ opt_pc' = "done"
  /\ UNCHANGED <<optInputs, prob_min_status, min_vol_weights, target_idx, frontier,
                 max_sharpe_portfolio, rbVars, wfVars, rpVars, libVars>>

\* lines 834-843: the solve raised
InstFallbackException ==
  /\ opt_fn = "institutional_portfolio_optimizer" /\ opt_pc = "start"
  /\ \E o \in InstOutcomes :
       /\ o.status = "exception"
       /\ prob_status' = o.status
  /\ opt_result' = [kind |-> "returned",
                    weights |-> EqualWeights(n_assets),
                    turnover |-> Zero,
                    optimization_details |-> [status |-> "solver_error"]]
  /\ opt_pc' = "done"
  /\ UNCHANGED <<optInputs, prob_min_status, min_vol_weights, target_idx, frontier,
                 max_sharpe_portfolio, rbVars, wfVars, rpVars, libVars>>

(***************************************************************************)
(* markowitz_frontier (optimizers_v2.py:73-233).  A portfolio record keeps *)
(* the variance vol_sq in place of its square root vol.                    *)
(***************************************************************************)
Portfolio(w) ==
  [return |-> PortReturn(w, mu, n_assets),
   vol_sq |-> Variance(w, Sigma, n_assets),
   weights |-> w]

Sign(x) == IF x[1] > 0 THEN 1 ELSE IF x[1] < 0 THEN -1 ELSE 0

\* sharpe = port_return / port_vol if port_vol > 1e-10 else 0.0, compared
\* without taking the square root: sharpe(p) > sharpe(q)
SharpeGreater(p, q) ==
  LET a == IF RLt(Zero, p.vol_sq) THEN p.return ELSE Zero
      b == IF RLt(Zero, q.vol_sq) THEN q.return ELSE Zero
      va == IF RLt(Zero, p.vol_sq) THEN p.vol_sq ELSE One
      vb == IF RLt(Zero, q.vol_sq) THEN q.vol_sq ELSE One
      sa == RMul(RMul(a, a), vb)
      sb == RMul(RMul(b, b), va)
  IN  CASE Sign(a) > Sign(b) -> TRUE
        [] Sign(a) < Sign(b) -> FALSE
        [] Sign(a) = 1 /\ Sign(b) = 1 -> RLt(sb, sa)
        [] Sign(a) = -1 /\ Sign(b) = -1 -> RLt(sa, sb)
        [] OTHER -> FALSE

\* np.linspace(min_return, max_return * 0.95, points)[k - 1]
TargetReturn(k, min_return, max_return, n_points) ==
  LET stop == RMul(max_return, Norm(95, 100))
  IN  IF n_points = 1 THEN min_return
      ELSE RAdd(min_return, RMul(Norm(k - 1, n_points - 1), RSub(stop, min_return)))

\* float(np.max(mu))
MaxOf(m, n) == CHOOSE x \in {m[i] : i \in 1 .. n} : \A i \in 1 .. n : RLe(m[i], x)

\* lines 110-122: a single asset is the whole portfolio
FrontierSingleAsset ==
  /\ opt_fn = "markowitz_frontier" /\ opt_pc = "start"
  /\ n_assets = 1
  /\ LET single_portfolio == [return |-> mu[1], vol_sq |-> Rat(Sigma[1][1]), weights |-> <<One>>]
     IN  opt_result' = [kind |-> "returned",
                        frontier |-> <<single_portfolio>>,
                        max_sharpe |-> single_portfolio,
                        min_vol |-> single_portfolio]
  /\ opt_pc' = "done"
  /\ UNCHANGED <<optInputs, prob_min_status, prob_status, min_vol_weights, target_idx,
                 frontier, max_sharpe_portfolio, rbVars, wfVars, rpVars, libVars>>

FrontierMinOutcomes ==
  LET F == BoxFeasible(n_assets, min_weight, cap)
  IN  SolveOutcomes(F, [w \in F |-> Variance(w, Sigma, n_assets)])

\* lines 164-175: the minimum variance problem is solved
FrontierMinVarOptimal ==
  /\ opt_fn = "markowitz_frontier" /\ opt_pc = "start"
  /\ n_assets # 1
  /\ \E o \in FrontierMinOutcomes :
       /\ o.status \in AcceptedStatuses
       /\ prob_min_status' = o.status
       /\ min_vol_weights' = o.value
  /\ opt_pc' = "sweep"
  /\ UNCHANGED <<optInputs, prob_status, target_idx, frontier, max_sharpe_portfolio,
                 opt_result, rbVars, wfVars, rpVars, libVars>>

\* lines 167-171: any other status is an HTTP 400
FrontierMinVarFailed ==
  /\ opt_fn = "markowitz_frontier" /\ opt_pc = "start"
  /\ n_assets # 1
  /\ \E o \in FrontierMinOutcomes :
       /\ o.status \notin AcceptedStatuses \cup {"exception"}
       /\ prob_min_status' = o.status
  /\ opt_result' = [kind |-> "HTTPException", status |-> 400,
                    detail |-> "Failed to solve minimum variance problem"]
  /\ opt_pc' = "done"
  /\ UNCHANGED <<optInputs, prob_status, min_vol_weights, target_idx, frontier,
                 max_sharpe_portfolio, rbVars, wfVars, rpVars, libVars>>

\* line 165: the solve is not guarded; what it raises leaves the function
FrontierMinVarException ==
  /\ opt_fn = "markowitz_frontier" /\ opt_pc = "start"
  /\ n_assets # 1
  /\ \E o \in FrontierMinOutcomes :
       /\ o.status = "exception"
       /\ prob_min_status' = o.status
  /\ opt_result' = [kind |-> "SolverError"]
  /\ opt_pc' = "done"
  /\ UNCHANGED <<optInputs, prob_status, min_vol_weights, target_idx, frontier,
                 max_sharpe_portfolio, rbVars, wfVars, rpVars, libVars>>

\* the feasible set and outcomes of the solve for target number k
FrontierPointOutcomes(k) ==
  LET F == TargetFeasible(n_assets, min_weight, cap, mu,
                          TargetReturn(k, PortReturn(min_vol_weights, mu, n_assets),
                                       MaxOf(mu, n_assets), points))
  IN  SolveOutcomes(F, [w \in F |-> Variance(w, Sigma, n_assets)])

\* lines 187-213: a target whose solve ends in an accepted status
FrontierPointAccepted ==
  /\ opt_fn = "markowitz_frontier" /\ opt_pc = "sweep"
  /\ target_idx < points
  /\ \E o \in FrontierPointOutcomes(target_idx + 1) :
       /\ o.status \in AcceptedStatuses
       /\ prob_status' = o.status
       /\ frontier' = Append(frontier, Portfolio(o.value))
       /\ max_sharpe_portfolio' =
            IF max_sharpe_portfolio.kind = "None"
            THEN [kind |-> "Some", portfolio |-> Portfolio(o.value)]
            ELSE IF SharpeGreater(Portfolio(o.value), max_sharpe_portfolio.portfolio)
                 THEN [kind |-> "Some", portfolio |-> Portfolio(o.value)]
                 ELSE max_sharpe_portfolio
  /\ target_idx' = target_idx + 1
  /\ UNCHANGED <<optInputs, opt_pc, prob_min_status, min_vol_weights, opt_result,
                 rbVars, wfVars, rpVars, libVars>>

\* the step if a target whose solve is not accepted ended the sweep
FrontierPointSkippedFails ==
  /\ opt_fn = "markowitz_frontier" /\ opt_pc = "sweep"
  /\ target_idx < points
  /\ \E o \in FrontierPointOutcomes(target_idx + 1) :
       /\ o.status \notin AcceptedStatuses \cup {"exception"}
       /\ prob_status' = o.status
  /\ target_idx' = target_idx + 1
  /\ opt_result' = [kind |-> "HTTPException", status |-> 400,
                    detail |-> "Unable to construct efficient frontier"]
  /\ opt_pc' = "done"
  /\ UNCHANGED <<optInputs, prob_min_status, min_vol_weights, frontier,
                 max_sharpe_portfolio, rbVars, wfVars, rpVars, libVars>>

\* line 194: a target whose solve ends in any other status adds no point
FrontierPointSkipped ==
  /\ opt_fn = "markowitz_frontier" /\ opt_pc = "sweep"
  /\ target_idx < points
  /\ \E o \in FrontierPointOutcomes(target_idx + 1) :
       /\ o.status \notin AcceptedStatuses \cup {"exception"}
       /\ prob_status' = o.status
  /\ target_idx' = target_idx + 1
  /\ UNCHANGED <<optInputs, opt_pc, prob_min_status, min_vol_weights, frontier,
                 max_sharpe_portfolio, opt_result, rbVars, wfVars, rpVars, libVars>>

\* line 192: the solve is not guarded; what it raises leaves the function
FrontierPointException ==
  /\ opt_fn = "markowitz_frontier" /\ opt_pc = "sweep"
  /\ target_idx < points
  /\ \E o \in FrontierPointOutcomes(target_idx + 1) :
       /\ o.status = "exception"
       /\ prob_status' = o.status
  /\ opt_result' = [kind |-> "SolverError"]
  /\ opt_pc' = "done"
  /\ UNCHANGED <<optInputs, prob_min_status, min_vol_weights, target_idx, frontier,
                 max_sharpe_portfolio, rbVars, wfVars, rpVars, libVars>>

\* lines 215-219
FrontierEmpty ==
  /\ opt_fn = "markowitz_frontier" /\ opt_pc = "sweep"
  /\ target_idx = points
  /\ frontier = <<>>
  /\ opt_result' = [kind |-> "HTTPException", status |-> 400,
                    detail |-> "Unable to construct efficient frontier"]
  /\ opt_pc' = "done"
  /\ UNCHANGED <<optInputs, prob_min_status, prob_status, min_vol_weights, target_idx,
                 frontier, max_sharpe_portfolio, rbVars, wfVars, rpVars, libVars>>

\* lines 221-233
FrontierReturn ==
  /\ opt_fn = "markowitz_frontier" /\ opt_pc = "sweep"
  /\ target_idx = points
  /\ frontier # <<>>
  /\ opt_result' = [kind |-> "returned",
                    frontier |-> frontier,
                    max_sharpe |-> IF max_sharpe_portfolio.kind = "None"
                                   THEN frontier[Len(frontier)]
                                   ELSE max_sharpe_portfolio.portfolio,
                    min_vol |-> Portfolio(min_vol_weights)]
  /\ opt_pc' = "done"
  /\ UNCHANGED <<optInputs, prob_min_status, prob_status, min_vol_weights, target_idx,
                 frontier, max_sharpe_portfolio, rbVars, wfVars, rpVars, libVars>>

OptimizerNext ==
  \/ MinVarOptimal
  \/ MinVarFallbackStatus
  \/ MinVarFallbackException
  \/ InstOptimal
  \/ InstFallbackStatus
  \/ InstFallbackException
  \/ FrontierSingleAsset
  \/ FrontierMinVarOptimal
  \/ FrontierMinVarFailed
  \/ FrontierMinVarException
  \/ FrontierPointAccepted
  \/ FrontierPointSkipped
  \/ FrontierPointException
  \/ FrontierEmpty
  \/ FrontierReturn

SpecOptimizer == OptimizerInit /\ [][OptimizerNext]_vars

(***************************************************************************)
(* Properties of the allocation optimizer.                                 *)
(***************************************************************************)
\* min_weight <= max_weight and the n weights can sum to 1 inside the box
ValidConstraints ==
  /\ RLe(min_weight, cap)
  /\ RLe(RMul(Rat(n_assets), min_weight), One)
  /\ RLe(One, RMul(Rat(n_assets), cap))

\* every weight vector in the returned result
ReturnedWeights ==
  IF opt_result.kind # "returned" THEN {}
  ELSE IF opt_fn = "markowitz_frontier"
       THEN {opt_result.frontier[k].weights : k \in DOMAIN opt_result.frontier}
              \cup {opt_result.max_sharpe.weights, opt_result.min_vol.weights}
       ELSE {opt_result.weights}

\* the solve that decides the result did not end in an accepted status
PrimarySolveFailed ==
  \/ opt_fn = "markowitz_frontier" /\ prob_min_status \notin AcceptedStatuses \cup {"unsolved"}
  \/ opt_fn # "markowitz_frontier" /\ prob_status \notin AcceptedStatuses \cup {"unsolved"}

C8_FallbackIsFlagged ==
  (opt_pc = "done" /\ PrimarySolveFailed)
    => /\ opt_result.kind = "returned"
       /\ opt_result.weights = EqualWeights(n_assets)
       /\ "optimization_details" \in DOMAIN opt_result
       /\ opt_result.optimization_details.status \notin AcceptedStatuses

\* C12: an infeasible constraint combination (min_weight > max_weight, or
\* caps under which the N weights cannot sum to 1) is rejected before any
\* solve is attempted: no solve has run, and the call ends in an error, never
\* in a result that carries a weight vector.
C12_InfeasibleRejectedUpFront ==
  (opt_pc = "done" /\ ~ValidConstraints)
    => /\ prob_min_status = "unsolved"
       /\ prob_status = "unsolved"
       /\ opt_result.kind = "HTTPException"

(***************************************************************************)
(* Risk parity: risk_parity_weights_cvxpy (optimizers_v2.py:384-466) and   *)
(* risk_parity_weights (optimizers.py:76-88).  The 1e-12 added to the      *)
(* divisors is left out: no divisor is zero on the matrices below.         *)
(***************************************************************************)
RiskParityFunctions == {"risk_parity_weights_cvxpy", "risk_parity_weights"}

\* max_iter: int = 50 and max_iter: int = 500
DefaultMaxIter == 50
LegacyMaxIter == 500

MaxIter(f) == IF f = "risk_parity_weights_cvxpy" THEN DefaultMaxIter ELSE LegacyMaxIter

\* tol = 1e-6, the rtol = 1e-5 of np.allclose, the 1e-8 of the PSD check and
\* the 1e-6 added to the diagonal
TolDen == 1000000
RtolDen == 100000
EigTolDen == 100000000
RegularisationDen == 1000000

\* covariance matrices: the identity, variances 1, 4, 9, .., the identity
\* scaled by n, and a matrix with off-diagonal entries -2 that is not a
\* covariance matrix
RiskParitySigmas(n) ==
  SigmaChoices(n)
    \cup {[i \in 1 .. n |-> [j \in 1 .. n |-> IF i = j THEN n ELSE 0]],
          [i \in 1 .. n |-> [j \in 1 .. n |-> IF i = j THEN 1 ELSE -2]]}

IsDiagonal(S, n) == \A i, j \in 1 .. n : i # j => S[i][j] = 0

\* eigvals.min() of a diagonal matrix, or of a matrix with one value on the
\* diagonal and one value off it
MinEigenvalue(S, n) ==
  IF IsDiagonal(S, n)
  THEN CHOOSE x \in {S[i][i] : i \in 1 .. n} : \A i \in 1 .. n : x <= S[i][i]
  ELSE Min(S[1][1] - S[1][2], S[1][1] + (n - 1) * S[1][2])

\* lines 419-421: Sigma + np.eye(n) * 1e-6 when eigvals.min() < 1e-8; the
\* entries become rationals
Regularised(S, n) ==
  [i \in 1 .. n |-> [j \in 1 .. n |->
     IF i = j /\ RLt(Rat(MinEigenvalue(S, n)), Norm(1, EigTolDen))
     THEN RAdd(Rat(S[i][j]), Norm(1, RegularisationDen))
     ELSE Rat(S[i][j])]]

\* the matrix the iteration works on
WorkingSigma(f, S, n) ==
  IF f = "risk_parity_weights_cvxpy" THEN Regularised(S, n)
  ELSE [i \in 1 .. n |-> [j \in 1 .. n |-> Rat(S[i][j])]]

\* mrc = Sigma @ w
Mrc(S, w, n) == [i \in 1 .. n |-> SumTo([j \in 1 .. n |-> RMul(S[i][j], w[j])], n)]

\* rc = w * mrc
Rc(S, w, n) == [i \in 1 .. n |-> RMul(w[i], Mrc(S, w, n)[i])]

\* np.allclose(rc, target, atol=tol): |rc_i - target| <= atol + rtol * |target|
AllClose(rc, target, n) ==
  \A i \in 1 .. n :
    RLe(RAbs(RSub(rc[i], target)),
        RAdd(Norm(1, TolDen), RMul(Norm(1, RtolDen), RAbs(target))))

\* np.maximum(x, 0)
Maximum0(x) == IF IsFinite(x) /\ x[1] < 0 THEN Zero ELSE x

\* lines 445-448: w_new = np.maximum(target / mrc, 0)
WNew(S, w, n) == [i \in 1 .. n |-> Maximum0(RDiv(Norm(1, n), Mrc(S, w, n)[i]))]

\* optimizers.py:84-85: np.maximum(w * target / rc, 0)
WNewLegacy(S, w, n) ==
  [i \in 1 .. n |-> Maximum0(RDiv(RMul(w[i], Norm(1, n)), Rc(S, w, n)[i]))]

\* w_new / w_new.sum()
Normalised(w, n) == [i \in 1 .. n |-> RDiv(w[i], SumTo(w, n))]

RiskParityInit ==
  /\ LibraryIdle
  /\ RebalanceIdle
  /\ WalkForwardIdle
  /\ OptimizerIdle
  /\ rp_fn \in RiskParityFunctions
  /\ rp_n \in 1 .. NAssets
  /\ rp_Sigma \in RiskParitySigmas(rp_n)
  /\ rp_w = EqualWeights(rp_n)
  /\ rp_iteration = 0
  /\ rp_pc = "loop"
  /\ rp_result = NoResult

\* the risk contributions at the head of an iteration
CurrentRc == Rc(WorkingSigma(rp_fn, rp_Sigma, rp_n), rp_w, rp_n)

\* lines 439-441: the convergence check breaks out of the loop
RiskParityConverged ==
  /\ rp_pc = "loop" /\ rp_iteration < MaxIter(rp_fn)
  /\ AllClose(CurrentRc, Norm(1, rp_n), rp_n)
  /\ rp_pc' = "return"
  /\ UNCHANGED <<rp_fn, rp_n, rp_Sigma, rp_w, rp_iteration, rp_result,
                 rbVars, wfVars, optVars, libVars>>

\* lines 443-454: w = w_new / w_sum
RiskParityUpdate ==
  /\ rp_fn = "risk_parity_weights_cvxpy"
  /\ rp_pc = "loop" /\ rp_iteration < MaxIter(rp_fn)
  /\ ~AllClose(CurrentRc, Norm(1, rp_n), rp_n)
  /\ LET w_new == WNew(WorkingSigma(rp_fn, rp_Sigma, rp_n), rp_w, rp_n)
     IN  /\ RLt(Zero, SumTo(w_new, rp_n))
         /\ rp_w' = Normalised(w_new, rp_n)
  /\ rp_iteration' = rp_iteration + 1
  /\ UNCHANGED <<rp_fn, rp_n, rp_Sigma, rp_pc, rp_result, rbVars, wfVars, optVars, libVars>>

\* lines 455-459: w_sum <= 0, equal weights and break
RiskParityFallback ==
  /\ rp_fn = "risk_parity_weights_cvxpy"
  /\ rp_pc = "loop" /\ rp_iteration < MaxIter(rp_fn)
  /\ ~AllClose(CurrentRc, Norm(1, rp_n), rp_n)
  /\ ~RLt(Zero, SumTo(WNew(WorkingSigma(rp_fn, rp_Sigma, rp_n), rp_w, rp_n), rp_n))
  /\ rp_w' = EqualWeights(rp_n)
  /\ rp_pc' = "return"
  /\ UNCHANGED <<rp_fn, rp_n, rp_Sigma, rp_iteration, rp_result, rbVars, wfVars, optVars, libVars>>

\* optimizers.py:84-86: the update of risk_parity_weights, which has no fallback
RiskParityUpdateLegacy ==
  /\ rp_fn = "risk_parity_weights"
  /\ rp_pc = "loop" /\ rp_iteration < MaxIter(rp_fn)
  /\ ~AllClose(CurrentRc, Norm(1, rp_n), rp_n)
  /\ rp_w' = Normalised(WNewLegacy(WorkingSigma(rp_fn, rp_Sigma, rp_n), rp_w, rp_n), rp_n)
  /\ rp_iteration' = rp_iteration + 1
  /\ UNCHANGED <<rp_fn, rp_n, rp_Sigma, rp_pc, rp_result, rbVars, wfVars, optVars, libVars>>

\* line 466 and optimizers.py:87: return w
RiskParityReturn ==
  /\ \/ rp_pc = "return"
     \/ rp_pc = "loop" /\ rp_iteration = MaxIter(rp_fn)
  /\ rp_result' = [kind |-> "returned", weights |-> rp_w]
  /\ rp_pc' = "done"
  /\ UNCHANGED <<rp_fn, rp_n, rp_Sigma, rp_w, rp_iteration, rbVars, wfVars, optVars, libVars>>

RiskParityNext ==
  \/ RiskParityConverged
  \/ RiskParityUpdate
  \/ RiskParityFallback
  \/ RiskParityUpdateLegacy
  \/ RiskParityReturn

SpecRiskParity == RiskParityInit /\ [][RiskParityNext]_vars

\* the covariance matrix is that of uncorrelated assets
Uncorrelated(S, n) == IsDiagonal(S, n) /\ \A i \in 1 .. n : S[i][i] > 0

\* risk contributions w_i * (Sigma w)_i of the returned weights
ReturnedRc == Rc([i \in 1 .. rp_n |-> [j \in 1 .. rp_n |-> Rat(rp_Sigma[i][j])]],
                 rp_result.weights, rp_n)

\* the square of np.std(v)
StdSq(v, n) ==
  LET m == RDiv(SumTo(v, n), Rat(n))
  IN  RDiv(SumTo([i \in 1 .. n |-> RMul(RSub(v[i], m), RSub(v[i], m))], n), Rat(n))

\* C13: for two or more uncorrelated assets the risk contributions of the
\* returned weights are equal within the tolerances of the repository's test:
\* their standard deviation is below half of 1/N and no contribution is three
\* times another, as it is for weights proportional to 1/sigma_i.
C13_RiskParityEqualContributions ==
  (rp_pc = "done" /\ rp_n >= 2 /\ Uncorrelated(rp_Sigma, rp_n))
    => /\ RLt(StdSq(ReturnedRc, rp_n), RMul(Norm(1, 2 * rp_n), Norm(1, 2 * rp_n)))
       /\ \A i, j \in 1 .. rp_n : RLt(ReturnedRc[i], RMul(Rat(3), ReturnedRc[j]))

\* all assets have the same return in every period
IdenticalReturns == \A k \in 1 .. Len(returns) : \A a, b \in Assets : returns[k].r[a] = returns[k].r[b]

\* C14: with cost_bps = 0 and identical returns of all assets in every
\* period, the net return series under every rebalance frequency (none,
\* monthly, quarterly, annual) is the weighted-average return series.
C14_NoDriftNoOp ==
  (/\ pc = "done" /\ cost_bps = 0 /\ frequency \in KnownFrequencies
   /\ IdenticalReturns)
    => /\ result.kind = "returned"
       /\ NetSeries = WeightedReturns(returns, weights)

\* C15: a backtest with cost_bps > 0 completes, and its net annualized
\* return is at most the gross (cost_bps = 0) annualized return: strictly
\* less when total turnover is positive, equal when turnover is 0 (for
\* example with frequency none).  The annualized returns are compared by
\* their growth factors over the same number of periods.
C15_CostsNeverRaiseReturn ==
  (/\ fn = "_compute_rebalanced_returns" /\ pc = "reported"
   /\ cost_bps > 0 /\ frequency \in KnownFrequencies)
    => /\ payload.kind = "returned"
       /\ payload.has_gross
       /\ RLe(Growth(payload.net_cagr.of), Growth(payload.gross_cagr.of))
       /\ RLt(Zero, payload.total_turnover)
            => RLt(Growth(payload.net_cagr.of), Growth(payload.gross_cagr.of))
       /\ payload.total_turnover = Zero
            => Growth(payload.net_cagr.of) = Growth(payload.gross_cagr.of)

\* C16: with rebalance frequency none the call returns and the reported
\* turnover is exactly 0 for every period of the horizon, for any weights,
\* returns and cost_bps.
C16_NoneHasZeroTurnover ==
  (pc \in {"done", "reported"} /\ frequency = "none")
    => /\ result.kind = "returned"
       /\ fn = "apply_rebalance"
            => /\ Len(result.turnover) = Len(returns)
               /\ \A k \in 1 .. Len(returns) : result.turnover[k] = Zero
       /\ fn = "_compute_rebalanced_returns" => result.total_turnover = Zero
       /\ payload.kind = "returned" => payload.total_turnover = Zero

C16_Witness ==
  /\ pc = "done" /\ frequency = "none" /\ fn = "apply_rebalance"
  /\ cost_bps > 0 /\ Len(returns) >= 2
  /\ returns[1].r[1] # returns[1].r[2]

\* C17: after every holding (drift) step of either simulator the current
\* weights sum to 1, given target weights that sum to 1.
C17_DriftKeepsBudget ==
  (fn # "idle" /\ idx >= 1 /\ VecSum(weights) = One)
    => VecSum(current_weights) = One

\* the sweep of markowitz_frontier ended without an exception of the solver
SweepEnded ==
  /\ opt_fn = "markowitz_frontier" /\ opt_pc = "done"
  /\ prob_min_status \in AcceptedStatuses
  /\ opt_result.kind # "SolverError"

C19_MinVolIsLowest ==
  (opt_fn = "markowitz_frontier" /\ opt_pc = "done" /\ opt_result.kind = "returned")
    => \A k \in 1 .. Len(opt_result.frontier) :
         RLe(opt_result.min_vol.vol_sq, opt_result.frontier[k].vol_sq)

C19_Witness ==
  /\ opt_fn = "markowitz_frontier" /\ opt_pc = "done" /\ opt_result.kind = "returned"
  /\ n_assets >= 2
  /\ Len(opt_result.frontier) >= 2
  /\ \E k \in 1 .. Len(opt_result.frontier) :
       RLt(opt_result.min_vol.vol_sq, opt_result.frontier[k].vol_sq)

\* C20: every weight vector returned by institutional_portfolio_optimizer
\* has sum_i |w_i - current_weights_i| <= max_turnover.
C20_TurnoverCapRespected ==
  (opt_fn = "institutional_portfolio_optimizer" /\ opt_pc = "done"
     /\ opt_result.kind = "returned")
    => RLe(TurnoverTo(opt_result.weights, inst_current_weights, n_assets), max_turnover)

(***************************************************************************)
(* Performance metrics: compute_performance_stats (analytics.py:30-78) and *)
(* _summary (analytics_pipeline.py:133-174, bench = None).  A value whose  *)
(* computation takes a root or a fractional power is kept as the           *)
(* expression: "pow" is base ** (252 / periods) - 1, "sqrt" is             *)
(* sqrt(of * 252), "ratio" is num / den.                                   *)
(***************************************************************************)
Exact(x) == [kind |-> "exact", value |-> x]
PowMinusOne(base, n) == [kind |-> "pow", base |-> base, periods |-> n]
AnnualisedRoot(x) == [kind |-> "sqrt", of |-> x]
Ratio(a, b) == [kind |-> "ratio", num |-> a, den |-> b]

\* value == 0 of a value that is not a ratio
IsZeroValue(v) ==
  CASE v.kind = "exact" -> v.value = Zero
    [] v.kind = "pow" -> v.base = One
    [] v.kind = "sqrt" -> v.of = Zero

\* math.isfinite of a value that is not a ratio
IsFinitePart(v) ==
  CASE v.kind = "exact" -> IsFinite(v.value)
    [] v.kind = "pow" -> IsFinite(v.base) /\ v.base[1] >= 0
    [] v.kind = "sqrt" -> IsFinite(v.of) /\ v.of[1] >= 0

\* math.isfinite(value)
IsFiniteValue(v) ==
  IF v.kind = "ratio"
  THEN IsFinitePart(v.num) /\ IsFinitePart(v.den) /\ ~IsZeroValue(v.den)
  ELSE IsFinitePart(v)

\* _sanitize_float(value, default=0.0), analytics.py:16-20
SanitizeFloat(value) == IF IsFiniteValue(value) THEN value ELSE Exact(Zero)

\* (1 + returns).cumprod()
RECURSIVE Equity(_)
Equity(rets) ==
  IF Len(rets) = 0 THEN <<>>
  ELSE LET head == Equity(SubSeq(rets, 1, Len(rets) - 1))
           prev == IF Len(head) = 0 THEN One ELSE head[Len(head)]
       IN  Append(head, RMul(prev, RAdd(One, rets[Len(rets)])))

\* equity.cummax()
CumMax(eq) ==
  [k \in 1 .. Len(eq) |->
     CHOOSE m \in {eq[i] : i \in 1 .. k} : \A i \in 1 .. k : RLe(eq[i], m)]

\* equity / running_max - 1
Drawdowns(rets) ==
  LET eq == Equity(rets)
      running_max == CumMax(eq)
  IN  [k \in 1 .. Len(eq) |-> RSub(RDiv(eq[k], running_max[k]), One)]

\* Series.min(): NaN entries are skipped, NaN if nothing is left
SeriesMin(series) ==
  LET finite == {series[k] : k \in {i \in 1 .. Len(series) : IsFinite(series[i])}}
  IN  IF finite = {} THEN NaN
      ELSE CHOOSE m \in finite : \A x \in finite : RLe(m, x)

\* Series.std() squared: the sample variance with ddof = 1, NaN below 2 entries
SeriesVar(series) ==
  LET n == Len(series)
  IN  IF n < 2 THEN NaN
      ELSE LET m == RDiv(SumTo(series, n), Rat(n))
               sq == [i \in 1 .. n |-> RMul(RSub(series[i], m), RSub(series[i], m))]
           IN  RDiv(SumTo(sq, n), Rat(n - 1))

\* port[port < 0]
RECURSIVE Negatives(_)
Negatives(series) ==
  IF Len(series) = 0 THEN <<>>
  ELSE IF series[1][1] < 0 THEN <<series[1]>> \o Negatives(Tail(series))
       ELSE Negatives(Tail(series))

\* (port > 0).sum() / len(port)
HitRate(series) ==
  Norm(Cardinality({i \in 1 .. Len(series) : series[i][1] > 0}), Len(series))

\* DRAWDOWN_FLOOR = -0.999
DrawdownFloor == Norm(-999, 1000)

\* analytics.py:59-70 without the floor
FlooredDrawdownNoFloor(max_drawdown) == max_drawdown

\* analytics.py:59-70: if max_drawdown < DRAWDOWN_FLOOR: max_drawdown = DRAWDOWN_FLOOR
FlooredDrawdown(max_drawdown) ==
  IF IsFinite(max_drawdown) /\ RLt(max_drawdown, DrawdownFloor)
  THEN DrawdownFloor ELSE max_drawdown

\* the dictionary returned by compute_performance_stats for a non-empty series
PerformanceStats(rets) ==
  LET equity == Equity(rets)
      total_return == RSub(equity[Len(equity)], One)
      annualized_return == PowMinusOne(RAdd(One, total_return), Len(rets))
      annualized_vol == AnnualisedRoot(RMul(SeriesVar(rets), Rat(TradingDays)))
      sharpe_ratio == IF ~IsZeroValue(annualized_vol)
                      THEN Ratio(annualized_return, annualized_vol) ELSE Exact(Zero)
      max_drawdown == FlooredDrawdown(SeriesMin(Drawdowns(rets)))
  IN  [cumulative_return |-> SanitizeFloat(Exact(total_return)),
       annualized_return |-> SanitizeFloat(annualized_return),
       annualized_volatility |-> SanitizeFloat(annualized_vol),
       sharpe_ratio |-> SanitizeFloat(sharpe_ratio),
       max_drawdown |-> SanitizeFloat(Exact(max_drawdown))]

\* the dictionary returned by _summary(port, None) for a non-empty series
Summary(port) ==
  LET total_return == RSub(Growth(port), One)
      cagr == PowMinusOne(RAdd(One, total_return), Len(port))
      vol == AnnualisedRoot(RMul(SeriesVar(port), Rat(TradingDays)))
      downside == AnnualisedRoot(RMul(SeriesVar(Negatives(port)), Rat(TradingDays)))
      sharpe == IF ~IsZeroValue(vol) THEN Ratio(cagr, vol) ELSE Exact(Zero)
      sortino == IF ~IsZeroValue(downside) THEN Ratio(cagr, downside) ELSE Exact(Zero)
      max_dd == SeriesMin(Drawdowns(port))
  IN  [total_return |-> Exact(total_return),
       cagr |-> cagr,
       annualized_volatility |-> vol,
       sharpe_ratio |-> sharpe,
       sortino_ratio |-> sortino,
       max_drawdown |-> Exact(max_dd),
       hit_rate |-> Exact(HitRate(port)),
       benchmark_cagr |-> Exact(Zero),
       beta |-> Exact(Zero),
       alpha |-> Exact(Zero),
       tracking_error |-> Exact(Zero)]

MetricsFunctions == {"compute_performance_stats", "_summary"}

\* the returns of one period: a total loss, losses of 97.5% and 50%, no
\* change and a gain of 50%
PeriodReturns == {Rat(-1), Norm(-39, 40), Norm(-1, 2), Zero, Norm(1, 2)}

ReturnSeries == UNION {[1 .. n -> PeriodReturns] : n \in 0 .. MaxObs}

MetricsInit ==
  /\ RebalanceIdle /\ WalkForwardIdle /\ OptimizerIdle /\ RiskParityIdle
  /\ RulesIdle /\ SimulateIdle
  /\ call_fn \in MetricsFunctions
  /\ call_args \in {[returns |-> r] : r \in ReturnSeries}
  /\ call_pc = "start"
  /\ call_result = NoResult

\* analytics.py:39-40: an empty series is an HTTP 400
StatsEmpty ==
  /\ call_fn = "compute_performance_stats" /\ call_pc = "start"
  /\ call_args.returns = <<>>
  /\ call_result' = [kind |-> "HTTPException", status |-> 400,
                     detail |-> "Not enough data to compute performance statistics."]
  /\ call_pc' = "done"
  /\ UNCHANGED <<call_fn, call_args, rbVars, wfVars, optVars, rpVars, ruleVars, simVars>>

\* analytics.py:42-78
StatsReturn ==
  /\ call_fn = "compute_performance_stats" /\ call_pc = "start"
  /\ call_args.returns # <<>>
  /\ call_result' = [kind |-> "returned", value |-> PerformanceStats(call_args.returns)]
  /\ call_pc' = "done"
  /\ UNCHANGED <<call_fn, call_args, rbVars, wfVars, optVars, rpVars, ruleVars, simVars>>

\* analytics_pipeline.py:136-137: an empty series gives {}
SummaryEmpty ==
  /\ call_fn = "_summary" /\ call_pc = "start"
  /\ call_args.returns = <<>>
  /\ call_result' = [kind |-> "returned", value |-> <<>>]
  /\ call_pc' = "done"
  /\ UNCHANGED <<call_fn, call_args, rbVars, wfVars, optVars, rpVars, ruleVars, simVars>>

\* analytics_pipeline.py:138-174
SummaryReturn ==
  /\ call_fn = "_summary" /\ call_pc = "start"
  /\ call_args.returns # <<>>
  /\ call_result' = [kind |-> "returned", value |-> Summary(call_args.returns)]
  /\ call_pc' = "done"
  /\ UNCHANGED <<call_fn, call_args, rbVars, wfVars, optVars, rpVars, ruleVars, simVars>>

MetricsNext == StatsEmpty \/ StatsReturn \/ SummaryEmpty \/ SummaryReturn

SpecMetrics == MetricsInit /\ [][MetricsNext]_vars

\* the call returned the metrics of a non-empty series
MetricsReturned ==
  /\ call_fn \in MetricsFunctions /\ call_pc = "done"
  /\ call_result.kind = "returned" /\ call_args.returns # <<>>

\* C21: every numeric value returned by compute_performance_stats and by
\* _summary for a non-empty return series is finite.
C21_MetricsAreFinite ==
  MetricsReturned
    => \A k \in DOMAIN call_result.value : IsFiniteValue(call_result.value[k])

\* the minimum of equity / running_max - 1 over the series of the call
RawMaxDrawdown == SeriesMin(Drawdowns(call_args.returns))

StatsReturned ==
  /\ call_fn = "compute_performance_stats" /\ call_pc = "done"
  /\ call_result.kind = "returned"

Scenario == [n_periods |-> 100, train_window |-> 60, test_window |-> 20]

\* matrices of Scenario.n_periods rows that alternate between two rows
ScenarioFrames ==
  {[i \in 1 .. Scenario.n_periods |-> IF i % 2 = 1 THEN a ELSE b] :
     a \in RowReturns, b \in RowReturns}

ScenarioInit ==
  /\ LibraryIdle /\ RiskParityIdle /\ RebalanceIdle /\ OptimizerIdle
  /\ wf_returns \in ScenarioFrames
  /\ training_results = <<>>
  /\ testing_results = <<>>
  /\ oos_returns_list = <<>>
  /\ n_periods = Len(wf_returns)
  /\ train_window = Scenario.train_window
  /\ test_window = Scenario.test_window
  /\ rebalance_freq \in {"D", "W", "M", "Q"}
  /\ wf_pc = "start"
  /\ rebalance_indices = <<>>
  /\ windows = <<>>
  /\ wf_result = NoResult

ScenarioNext == WFStart \/ WFWindow \/ WFReturn

SpecWalkForwardScenario == ScenarioInit /\ [][ScenarioNext]_vars

ScenarioEnded ==
  /\ wf_pc = "done"
  /\ n_periods = Scenario.n_periods
  /\ train_window = Scenario.train_window /\ test_window = Scenario.test_window

\* the window with train range [0:60] and test range [60:80]
ScenarioFirstWindow ==
  [train_start |-> 0, train_end |-> Scenario.train_window,
   test_start |-> Scenario.train_window,
   test_end |-> Scenario.train_window + Scenario.test_window]

\* C23 as stated: the scenario produces exactly 1 window, [0:60] and
\* [60:80], for each of the strides 1, 5, 21 and 63.
C23_ExactlyOneWindow ==
  ScenarioEnded
    => /\ wf_result.kind = "returned"
       /\ wf_result.windows = <<ScenarioFirstWindow>>

\* C23 amended: the scenario returns a first window [0:60] and [60:80] for
\* every stride, and one window for each start 60 + k * stride below 80:
\* exactly 1 window for the strides 21 and 63, 4 windows for the stride 5 and
\* 20 windows for the stride 1.
C23_OneWindowPerStrideStep ==
  ScenarioEnded
    => /\ wf_result.kind = "returned"
       /\ wf_result.windows[1] = ScenarioFirstWindow
       /\ Len(wf_result.windows) =
            (CASE rebalance_freq = "D" -> 20
               [] rebalance_freq = "W" -> 4
               [] rebalance_freq = "M" -> 1
               [] rebalance_freq = "Q" -> 1)
       /\ \A k \in 1 .. Len(wf_result.windows) :
            wf_result.windows[k].test_start
              = Scenario.train_window + (k - 1) * Stride(rebalance_freq)

C23_Witness ==
  /\ ScenarioEnded /\ wf_result.kind = "returned"
  /\ rebalance_freq = "W"
  /\ Len(wf_result.windows) = 4
  /\ wf_result.windows[1] = ScenarioFirstWindow

\* the validator returned its report
WalkForwardReturned == wf_pc = "done" /\ wf_result.kind = "returned"

\* C24: the overfitting label is low exactly when degradation < 0.10, medium
\* exactly when 0.10 <= degradation < 0.30 and high exactly when
\* degradation >= 0.30, where degradation is
\* (avg_train_return - avg_test_return) / |avg_train_return|.
C24_OverfittingBuckets ==
  WalkForwardReturned
    => LET degradation == wf_result.performance_degradation
           label == wf_result.overfitting_indicator
           avg_train_return == AvgReturn(wf_result.training_performance)
           avg_test_return == AvgReturn(wf_result.testing_performance)
       IN  /\ label \in {"low", "medium", "high"}
           /\ label = "low" <=> RLt(degradation, Norm(10, 100))
           /\ label = "medium"
                <=> (RLe(Norm(10, 100), degradation) /\ RLt(degradation, Norm(30, 100)))
           /\ label = "high" <=> RLe(Norm(30, 100), degradation)
           /\ avg_train_return # Zero
                => degradation = RDiv(RSub(avg_train_return, avg_test_return),
                                      RAbs(avg_train_return))

C24_Witness ==
  /\ WalkForwardReturned
  /\ wf_result.overfitting_indicator = "medium"
  /\ wf_result.performance_degradation = Norm(10, 100)

\* the sum of the test-window lengths of the returned windows
TestPeriodsTotal ==
  IntSumTo([k \in 1 .. Len(wf_result.windows) |->
              wf_result.windows[k].test_end - wf_result.windows[k].test_start],
           Len(wf_result.windows))

\* C28: the pooled out-of-sample series holds exactly one return per test
\* period of each window: its length is the sum of the test-window lengths,
\* whatever the number of assets.
C28_OneReturnPerTestPeriod ==
  WalkForwardReturned => wf_result.out_of_sample.periods = TestPeriodsTotal

(***************************************************************************)
(* black_litterman (optimizers_v2.py:547-647).  Tickers are the asset      *)
(* numbers 1 .. n; ticker 0 is not in the portfolio.  views is a record:   *)
(* given is FALSE for None, items is the list of (ticker, view_return).    *)
(***************************************************************************)
TauDen == 40
DefaultUncertaintyDen == 20

\* tau: float = 0.025
Tau == Norm(1, TauDen)

RatMatrix(S, n) == [i \in 1 .. n |-> [j \in 1 .. n |-> Rat(S[i][j])]]

\* the matrix without row i and column j
Minor(M, i, j, n) ==
  [r \in 1 .. n - 1 |-> [c \in 1 .. n - 1 |->
     M[IF r < i THEN r ELSE r + 1][IF c < j THEN c ELSE c + 1]]]

RECURSIVE Det(_, _)
\* the determinant, expanded along the first row
Det(M, n) ==
  IF n = 1 THEN M[1][1]
  ELSE SumTo([j \in 1 .. n |->
                RMul(RMul(IF j % 2 = 1 THEN One ELSE Rat(-1), M[1][j]),
                     Det(Minor(M, 1, j, n), n - 1))], n)

\* np.linalg.inv raises LinAlgError for a singular matrix
IsSingular(M, n) == Det(M, n) = Zero

\* np.linalg.inv(M) of a matrix that is not singular
Inverse(M, n) ==
  IF n = 1 THEN <<<<RDiv(One, M[1][1])>>>>
  ELSE [i \in 1 .. n |-> [j \in 1 .. n |->
          RDiv(RMul(IF (i + j) % 2 = 0 THEN One ELSE Rat(-1),
                    Det(Minor(M, j, i, n), n - 1)),
               Det(M, n))]]

\* M @ v
MatVec(M, v, n) == [i \in 1 .. n |-> SumTo([j \in 1 .. n |-> RMul(M[i][j], v[j])], n)]

\* lines 612-619: the diagonal of omega, one entry per view
Omega(cov, items, unc) ==
  [v \in 1 .. Len(items) |->
     IF ~unc.given
     THEN RMul(cov[items[v].ticker][items[v].ticker], Tau)
     ELSE LET u == IF items[v].ticker \in DOMAIN unc.items
                   THEN unc.items[items[v].ticker]
                   ELSE Norm(1, DefaultUncertaintyDen)
          IN  RMul(u, u)]

\* tau * cov.values
TauCov(cov, n) == [i \in 1 .. n |-> [j \in 1 .. n |-> RMul(Tau, cov[i][j])]]

\* lines 631-632: M = tau_cov_inv + P.T @ omega_inv @ P, where row v of P is
\* the unit vector of the view's ticker
Precision(cov, items, unc, n) ==
  LET tau_cov_inv == Inverse(TauCov(cov, n), n)
      omega == Omega(cov, items, unc)
  IN  [i \in 1 .. n |-> [j \in 1 .. n |->
         RAdd(tau_cov_inv[i][j],
              SumTo([v \in 1 .. Len(items) |->
                       IF items[v].ticker = i /\ i = j
                       THEN RDiv(One, omega[v]) ELSE Zero], Len(items)))]]

\* lines 626-636: M_inv @ (tau_cov_inv @ prior + P.T @ omega_inv @ Q)
Posterior(prior, cov, items, unc, n) ==
  LET tau_cov_inv == Inverse(TauCov(cov, n), n)
      omega == Omega(cov, items, unc)
      rhs == [i \in 1 .. n |->
                RAdd(MatVec(tau_cov_inv, prior, n)[i],
                     SumTo([v \in 1 .. Len(items) |->
                              IF items[v].ticker = i
                              THEN RDiv(items[v].ret, omega[v]) ELSE Zero], Len(items)))]
  IN  MatVec(Inverse(Precision(cov, items, unc, n), n), rhs, n)

\* one of the three inversions of lines 627-633 raises LinAlgError
PosteriorFails(cov, items, unc, n) ==
  \/ IsSingular(TauCov(cov, n), n)
  \/ \E v \in 1 .. Len(items) : Omega(cov, items, unc)[v] = Zero
  \/ IsSingular(Precision(cov, items, unc, n), n)

\* covariance matrices: the choices of the optimizer, an equicorrelated one,
\* one that is not positive semi-definite and the singular zero matrix
BlackLittermanSigmas(n) ==
  SigmaChoices(n)
    \cup {[i \in 1 .. n |-> [j \in 1 .. n |-> IF i = j THEN 2 ELSE 1]],
          [i \in 1 .. n |-> [j \in 1 .. n |-> IF i = j THEN 1 ELSE -2]],
          [i \in 1 .. n |-> [j \in 1 .. n |-> 0]]}

NoViews == [given |-> FALSE, items |-> <<>>]

\* None, {}, one view on a ticker (ticker 0 is invalid), and a view on each
\* of the first two tickers
ViewChoices(n) ==
  {NoViews, [given |-> TRUE, items |-> <<>>]}
    \cup {[given |-> TRUE, items |-> <<[ticker |-> t, ret |-> Rat(2)]>>] : t \in 0 .. n}
    \cup {[given |-> TRUE,
           items |-> <<[ticker |-> 1, ret |-> Rat(2)], [ticker |-> n, ret |-> Zero]>>]}

\* None, and an uncertainty of 0.1 or 0 for the first ticker only
UncertaintyChoices ==
  {[given |-> FALSE, items |-> <<>>],
   [given |-> TRUE, items |-> <<Norm(1, 10)>>],
   [given |-> TRUE, items |-> <<Zero>>]}

BlackLittermanInit ==
  /\ RebalanceIdle /\ WalkForwardIdle /\ OptimizerIdle /\ RiskParityIdle
  /\ RulesIdle /\ SimulateIdle
  /\ call_fn = "black_litterman"
  /\ call_args \in
       {[n |-> n, prior_returns |-> m, cov |-> S, index_match |-> im, square |-> sq,
         views |-> v, view_uncertainties |-> u] :
          n \in {NAssets}, m \in MuChoices(NAssets), S \in BlackLittermanSigmas(NAssets),
          im \in BOOLEAN, sq \in BOOLEAN,
          v \in ViewChoices(NAssets), u \in UncertaintyChoices}
  /\ call_pc = "start"
  /\ call_result = NoResult

\* lines 579-582 and 585-587: the conditions of the three ValueErrors
InputError(args) ==
  IF ~args.index_match THEN "prior_returns and cov indices must match"
  ELSE IF ~args.square THEN "Covariance matrix must be square with matching indices"
  ELSE IF RLt(Rat(MinEigenvalue(args.cov, args.n)), Norm(-1, EigTolDen))
       THEN "Covariance matrix must be positive semi-definite"
  ELSE "none"

\* t not in assets
InvalidTickers(args) ==
  {v \in 1 .. Len(args.views.items) : args.views.items[v].ticker \notin 1 .. args.n}

BLDone(r) ==
  /\ call_result' = r
  /\ call_pc' = "done"
  /\ UNCHANGED <<call_fn, call_args, rbVars, wfVars, optVars, rpVars, ruleVars, simVars>>

\* lines 579-587: the inputs are rejected
BLInputError ==
  /\ call_fn = "black_litterman" /\ call_pc = "start"
  /\ InputError(call_args) # "none"
  /\ BLDone([kind |-> "ValueError", detail |-> InputError(call_args)])

\* the result if the prior were scaled by tau on the way out
PriorCopyScaled(prior) == [i \in DOMAIN prior |-> RMul(Tau, prior[i])]

\* prior_returns.copy()
PriorCopy(prior) == prior

\* lines 589-591: if not views: return prior_returns.copy()
BLNoViews ==
  /\ call_fn = "black_litterman" /\ call_pc = "start"
  /\ InputError(call_args) = "none"
  /\ call_args.views.items = <<>>
  /\ BLDone([kind |-> "returned", value |-> PriorCopy(call_args.prior_returns),
             name |-> "prior"])

\* lines 594-599
BLInvalidTickers ==
  /\ call_fn = "black_litterman" /\ call_pc = "start"
  /\ InputError(call_args) = "none"
  /\ call_args.views.items # <<>>
  /\ InvalidTickers(call_args) # {}
  /\ BLDone([kind |-> "ValueError", detail |-> "Views contain invalid tickers not in portfolio"])

\* lines 640-645: LinAlgError, the prior is returned
BLSingular ==
  /\ call_fn = "black_litterman" /\ call_pc = "start"
  /\ InputError(call_args) = "none"
  /\ call_args.views.items # <<>>
  /\ InvalidTickers(call_args) = {}
  /\ PosteriorFails(RatMatrix(call_args.cov, call_args.n), call_args.views.items,
                    call_args.view_uncertainties, call_args.n)
  /\ BLDone([kind |-> "returned", value |-> PriorCopy(call_args.prior_returns),
             name |-> "prior"])

\* lines 601-647
BLPosterior ==
  /\ call_fn = "black_litterman" /\ call_pc = "start"
  /\ InputError(call_args) = "none"
  /\ call_args.views.items # <<>>
  /\ InvalidTickers(call_args) = {}
  /\ ~PosteriorFails(RatMatrix(call_args.cov, call_args.n), call_args.views.items,
                     call_args.view_uncertainties, call_args.n)
  /\ BLDone([kind |-> "returned",
             value |-> Posterior(call_args.prior_returns,
                                 RatMatrix(call_args.cov, call_args.n),
                                 call_args.views.items, call_args.view_uncertainties,
                                 call_args.n),
             name |-> "posterior_returns"])

BlackLittermanNext ==
  BLInputError \/ BLNoViews \/ BLInvalidTickers \/ BLSingular \/ BLPosterior

SpecBlackLitterman == BlackLittermanInit /\ [][BlackLittermanNext]_vars

\* C25: with no views (None or an empty mapping) and inputs that pass the
\* validation, black_litterman returns the prior expected returns unchanged.
C25_NoViewsReturnsPrior ==
  (call_fn = "black_litterman" /\ call_pc = "done"
     /\ call_args.views.items = <<>> /\ InputError(call_args) = "none")
    => /\ call_result.kind = "returned"
       /\ call_result.value = call_args.prior_returns

C25_Witness ==
  /\ call_fn = "black_litterman" /\ call_pc = "done"
  /\ call_args.views = [given |-> TRUE, items |-> <<>>]
  /\ call_result.kind = "returned"
  /\ call_result.value = call_args.prior_returns
  /\ call_args.prior_returns[1] # call_args.prior_returns[NAssets]

(***************************************************************************)
(* Covariance estimation: sample_covariance                                *)
(* (covariance_estimation.py:219-245) and ledoit_wolf_shrinkage (54-98).   *)
(* The fit of sklearn's LedoitWolf is not part of the repository: its      *)
(* matrix is kept as the expression "LedoitWolf of the data".              *)
(***************************************************************************)
CovarianceFunctions == {"sample_covariance", "ledoit_wolf_shrinkage"}

\* one entry of DataFrame.cov(): the sample covariance of two columns with
\* ddof = 1, NaN below two rows and below min_periods rows
PairCov(data, a, b, min_periods) ==
  IF Len(data) < 2 \/ Len(data) < min_periods THEN NaN
  ELSE LET ma == ColMean(data, a)
           mb == ColMean(data, b)
           prod == [i \in 1 .. Len(data) |->
                      RMul(RSub(data[i][a], ma), RSub(data[i][b], mb))]
       IN  RDiv(SumTo(prod, Len(data)), Rat(Len(data) - 1))

\* lines 240-245: returns.cov(min_periods=min_periods), times
\* periods_per_year if annualize
SampleCovarianceMatrix(data, annualize, min_periods) ==
  [a \in Assets |-> [b \in Assets |->
     IF annualize THEN RMul(PairCov(data, a, b, min_periods), Rat(TradingDays))
     ELSE PairCov(data, a, b, min_periods)]]

CovarianceInit ==
  /\ RebalanceIdle /\ WalkForwardIdle /\ OptimizerIdle /\ RiskParityIdle
  /\ RulesIdle /\ SimulateIdle
  /\ call_fn \in CovarianceFunctions
  /\ call_args \in
       {[returns |-> fr, annualize |-> an, min_periods |-> mp] :
          fr \in UNION {AllFrames(n) : n \in 0 .. MaxWfRows},
          an \in BOOLEAN,
          mp \in IF call_fn = "sample_covariance" THEN {0, MaxWfRows} ELSE {0}}
  /\ call_pc = "start"
  /\ call_result = NoResult

\* lines 240-245: the function has no check of the number of rows
SampleCovarianceReturn ==
  /\ call_fn = "sample_covariance" /\ call_pc = "start"
  /\ call_result' = [kind |-> "returned",
                     value |-> SampleCovarianceMatrix(call_args.returns, call_args.annualize,
                                                      call_args.min_periods)]
  /\ call_pc' = "done"
  /\ UNCHANGED <<call_fn, call_args, rbVars, wfVars, optVars, rpVars, ruleVars, simVars>>

\* lines 83-84: lw.fit(returns.values) rejects an array without rows
LedoitWolfNoSamples ==
  /\ call_fn = "ledoit_wolf_shrinkage" /\ call_pc = "start"
  /\ Len(call_args.returns) = 0
  /\ call_result' = [kind |-> "ValueError", detail |-> "Found array with 0 sample(s)"]
  /\ call_pc' = "done"
  /\ UNCHANGED <<call_fn, call_args, rbVars, wfVars, optVars, rpVars, ruleVars, simVars>>

\* lines 83-98: the fitted matrix, times periods_per_year if annualize
LedoitWolfReturn ==
  /\ call_fn = "ledoit_wolf_shrinkage" /\ call_pc = "start"
  /\ Len(call_args.returns) >= 1
  /\ call_result' = [kind |-> "returned",
                     value |-> [estimator |-> "LedoitWolf", of |-> call_args.returns,
                                annualize |-> call_args.annualize]]
  /\ call_pc' = "done"
  /\ UNCHANGED <<call_fn, call_args, rbVars, wfVars, optVars, rpVars, ruleVars, simVars>>

CovarianceNext == SampleCovarianceReturn \/ LedoitWolfNoSamples \/ LedoitWolfReturn

SpecCovariance == CovarianceInit /\ [][CovarianceNext]_vars

\* C26: covariance estimation on a returns matrix with fewer than 2
\* observations fails with an insufficient-data error for every estimation
\* method and never returns a matrix.
C26_FewObservationsRejected ==
  (call_fn \in CovarianceFunctions /\ call_pc = "done" /\ Len(call_args.returns) < 2)
    => call_result.kind # "returned"

(***************************************************************************)
(* min_variance_weights (optimizers.py:91-100), the closed form with the   *)
(* pseudo-inverse.                                                         *)
(***************************************************************************)
\* covariance matrices with one value on the diagonal and one off it (all of
\* them invertible), the diagonal choices of the optimizer and the zero matrix
MinVarianceSigmas(n) ==
  {[i \in 1 .. n |-> [j \in 1 .. n |-> IF i = j THEN dg ELSE off]] :
     dg \in {3, 4, 5}, off \in {-1, 0, 1}}
    \cup SigmaChoices(n)
    \cup {[i \in 1 .. n |-> [j \in 1 .. n |-> 0]]}

\* np.linalg.pinv(cov.values): the inverse of an invertible matrix and the
\* zero matrix for the zero matrix
Pinv(M, n) ==
  IF \A i, j \in 1 .. n : M[i][j] = Zero THEN M ELSE Inverse(M, n)

\* np.minimum(np.maximum(w, 0), cap); NaN stays NaN
Clipped(w, c, n) ==
  [i \in 1 .. n |->
     IF ~IsFinite(w[i]) /\ w[i] = NaN THEN NaN
     ELSE IF RLt(w[i], Zero) \/ (w[i][2] = 0 /\ w[i][1] < 0) THEN Zero
     ELSE IF RLt(c, w[i]) \/ w[i][2] = 0 THEN c
     ELSE w[i]]

\* lines 92-100
MinVarianceWeights(S, c, n) ==
  LET inv == Pinv(RatMatrix(S, n), n)
      raw == [i \in 1 .. n |-> SumTo(inv[i], n)]
      total == SumTo(raw, n)
      w == Clipped([i \in 1 .. n |-> RDiv(raw[i], total)], c, n)
  IN  IF SumTo(w, n) = Zero THEN EqualWeights(n)
      ELSE [i \in 1 .. n |-> RDiv(w[i], SumTo(w, n))]

MinVarianceInit ==
  /\ RebalanceIdle /\ WalkForwardIdle /\ OptimizerIdle /\ RiskParityIdle
  /\ RulesIdle /\ SimulateIdle
  /\ call_fn = "min_variance_weights"
  /\ call_args \in
       {[n |-> n, cov |-> S, cap |-> c] :
          n \in {NAssets}, S \in MinVarianceSigmas(NAssets),
          c \in GridLevels \cup {Norm(7, 20), Norm(4, 5)}}
  /\ call_pc = "start"
  /\ call_result = NoResult

\* lines 91-100
MinVarianceReturn ==
  /\ call_fn = "min_variance_weights" /\ call_pc = "start"
  /\ call_result' = [kind |-> "returned",
                     value |-> MinVarianceWeights(call_args.cov, call_args.cap, call_args.n)]
  /\ call_pc' = "done"
  /\ UNCHANGED <<call_fn, call_args, rbVars, wfVars, optVars, rpVars, ruleVars, simVars>>

MinVarianceNext == MinVarianceReturn

SpecMinVariance == MinVarianceInit /\ [][MinVarianceNext]_vars

\* C27: for every covariance matrix and every cap, each weight returned by
\* min_variance_weights is at most cap and the weights sum to 1.
C27_WeightsWithinCap ==
  (call_fn = "min_variance_weights" /\ call_pc = "done")
    => /\ \A i \in 1 .. call_args.n : RLe(call_result.value[i], call_args.cap)
       /\ SumTo(call_result.value, call_args.n) = One

(***************************************************************************)
(* evaluate_strategy_rules (backtests.py:58-115).  One step of the model   *)
(* is one iteration of the loop over price.index; the price of the bar is  *)
(* chosen when the bar is visited.  The indicators are the price itself    *)
(* and its simple moving average, compared with rule.value (rule.right is  *)
(* None).                                                                  *)
(***************************************************************************)
BarPrices == {Rat(1), Rat(2), Rat(3)}

\* rules on the price or on its 2-bar moving average, against the value 2
RuleChoices ==
  {[left |-> l, operator |-> op, value |-> Rat(2), action |-> a] :
     l \in {[indicator |-> "price", window |-> 0], [indicator |-> "sma", window |-> 2]},
     op \in {">", "<", "cross_over"},
     a \in {"long", "flat"}}

\* one rule or two rules
RuleLists ==
  {<<r>> : r \in RuleChoices}
    \cup {<<r1, r2>> : r1 \in RuleChoices, r2 \in RuleChoices}

\* compute_indicator(price, spec).iloc[k - 1], lines 13-19: the price, or
\* the rolling mean with min_periods = window (NaN before the window is full)
IndicatorAt(spec, series, k) ==
  IF spec.indicator = "price" THEN series[k]
  ELSE IF k < spec.window THEN NaN
  ELSE RDiv(SumTo([j \in 1 .. spec.window |-> series[k - spec.window + j]], spec.window),
            Rat(spec.window))

\* lines 79-95: condition of one rule on bar k; a NaN indicator skips the rule
RuleFires(rule, series, k) ==
  LET left == IndicatorAt(rule.left, series, k)
  IN  /\ IsFinite(left)
      /\ CASE rule.operator = ">" -> RLt(rule.value, left)
            [] rule.operator = "<" -> RLt(left, rule.value)
            [] rule.operator = "cross_over" ->
                 /\ k > 1
                 /\ RLe(IndicatorAt(rule.left, series, k - 1), rule.value)
                 /\ RLt(rule.value, left)

RECURSIVE AfterRules(_, _, _, _)
\* lines 75-97: position.iloc[i] after the loop over the first m rules
AfterRules(rs, m, series, k) ==
  IF m = 0 THEN 0
  ELSE IF RuleFires(rs[m], series, k)
       THEN (IF rs[m].action = "long" THEN 1 ELSE 0)
       ELSE AfterRules(rs, m - 1, series, k)

\* lines 101-102: if position.iloc[i] == 0 and i > 0: position.iloc[i] = position.iloc[i - 1]
Carried(after_rules, pos, k) ==
  IF after_rules = 0 /\ k > 1 THEN pos[k - 1] ELSE after_rules

\* lines 99-100: the entry price after the check of a bar that fell to 0
EntryAfterExit(after_rules, pos, entry, series, k) ==
  IF k > 1 /\ after_rules = 0 /\ pos[k - 1] = 1 THEN series[k] ELSE entry

\* lines 104-113: the position and entry price after the stop-loss and
\* take-profit checks
AfterStops(carried, entry, series, k, sl, tp) ==
  IF carried = 1
  THEN LET e == IF entry = None THEN series[k] ELSE entry
           change == RDiv(RSub(series[k], e), e)
       IN  IF sl # None /\ RLe(change, RNeg(RAbs(sl)))
           THEN [position |-> 0, entry_price |-> None]
           ELSE IF tp # None /\ RLe(RAbs(tp), change)
                THEN [position |-> 0, entry_price |-> None]
                ELSE [position |-> 1, entry_price |-> e]
  ELSE [position |-> carried, entry_price |-> entry]

RulesInit ==
  /\ RebalanceIdle /\ WalkForwardIdle /\ OptimizerIdle /\ RiskParityIdle
  /\ CallIdle /\ SimulateIdle
  /\ rules \in RuleLists
  /\ stop_loss \in {None, Norm(1, 2)}
  /\ take_profit \in {None, Norm(1, 2)}
  /\ price = <<>>
  /\ position = <<>>
  /\ entry_price = None
  /\ rules_pc = "loop"

\* lines 74-113: one iteration of the loop over the bars
RulesBar ==
  /\ rules_pc = "loop"
  /\ Len(price) < MaxBars
  /\ \E p \in BarPrices :
       LET series == Append(price, p)
           k == Len(series)
           after_rules == AfterRules(rules, Len(rules), series, k)
           entry == EntryAfterExit(after_rules, position, entry_price, series, k)
           out == AfterStops(Carried(after_rules, position, k), entry, series, k,
                             stop_loss, take_profit)
       IN  /\ price' = series
           /\ position' = Append(position, out.position)
           /\ entry_price' = out.entry_price
  /\ UNCHANGED <<rules, stop_loss, take_profit, rules_pc,
                 rbVars, wfVars, optVars, rpVars, callVars, simVars>>

\* line 115: return position
RulesReturn ==
  /\ rules_pc = "loop"
  /\ rules_pc' = "done"
  /\ UNCHANGED <<rules, stop_loss, take_profit, price, position, entry_price,
                 rbVars, wfVars, optVars, rpVars, callVars, simVars>>

RulesNext == RulesBar \/ RulesReturn

SpecStrategyRules == RulesInit /\ [][RulesNext]_vars

\* a rule with the action a fires on bar k
ActionFires(a, k) ==
  \E m \in 1 .. Len(rules) : rules[m].action = a /\ RuleFires(rules[m], price, k)

\* C29: when a rule with action flat fires on a bar while the position is
\* long, the position is 0 on that bar and stays 0 on later bars until a rule
\* with action long fires.
C29_FlatClosesPosition ==
  rules_pc \in {"loop", "done"}
    => \A k \in 2 .. Len(position) :
         (position[k - 1] = 1 /\ ActionFires("flat", k) /\ ~ActionFires("long", k))
           => \A j \in k .. Len(position) :
                (\A i \in k .. j : ~ActionFires("long", i)) => position[j] = 0

(***************************************************************************)
(* _simulate_strategy (quant_engine.py:66-176).  One step of the model is  *)
(* one iteration of the loop over the dates; the signal of the previous    *)
(* bar and the open and close of the bar are chosen when the bar is        *)
(* visited.  sim_equity is equity_records, its last element the variable   *)
(* equity.  The benchmark frame is empty, so that the benchmark records    *)
(* stay at the initial capital; the timestamps of the trades are left out. *)
(***************************************************************************)
SimCapitals == {Rat(10), Rat(20)}
SlippageBps == {Zero, Rat(100)}
Commissions == {Zero, One}
PositionSizes == {Norm(1, 2), One, Rat(2)}
OpenPrices == {NaN, Zero, Rat(2), Rat(5)}
ClosePrices == {NaN, Rat(2), Rat(5)}

SimRequests ==
  [initial_capital : SimCapitals, slippage_bps : SlippageBps,
   commission_per_trade : Commissions, max_position_size : PositionSizes]

RMin(x, y) == IF RLe(x, y) THEN x ELSE y
RMax(x, y) == IF RLe(y, x) THEN x ELSE y

\* int(x // y) of line 116 for y > 0
FloorDiv(x, y) == LET q == RDiv(x, y) IN q[1] \div q[2]

Pow10(n) == IF n = 2 THEN 100 ELSE 10000

\* round(float(x), digits) of lines 152-153: to the nearest multiple of
\* 10^-digits, a tie to the even one
Round(x, digits) ==
  LET scaled == RMul(x, Rat(Pow10(digits)))
      below == scaled[1] \div scaled[2]
      twice == RSub(RMul(Rat(2), scaled), Rat(2 * below))
      up == \/ RLt(One, twice)
            \/ twice = One /\ below % 2 = 1
  IN  Norm(IF up THEN below + 1 ELSE below, Pow10(digits))

\* line 99
MaxFraction(request) == RMax(Zero, RMin(request.max_position_size, One))
\* line 100
Slippage(request) == RDiv(request.slippage_bps, Rat(10000))
\* line 101
Commission(request) == request.commission_per_trade

\* lines 113-119
TargetShares(request, equity, held, signal_prev, open_price) ==
  IF signal_prev /\ held = 0
  THEN IF RLt(Zero, open_price)
       THEN FloorDiv(RMul(equity, MaxFraction(request)), open_price)
       ELSE 0
  ELSE IF ~signal_prev /\ held > 0 THEN 0 ELSE held

\* lines 124-134: the state after a BUY of trade_qty shares
Buy(request, c, held, entry, open_price, trade_qty) ==
  LET exec_price == RMul(open_price, RAdd(One, Slippage(request)))
      cost == RAdd(RMul(exec_price, Rat(trade_qty)), Commission(request))
      total == held + trade_qty
  IN  [cash |-> RSub(c, cost),
       shares |-> total,
       entry_price |->
         IF held = 0 THEN exec_price
         ELSE RDiv(RAdd(RMul(IF entry = None \/ entry = Zero THEN exec_price ELSE entry,
                             Rat(held)),
                        RMul(exec_price, Rat(trade_qty))),
                   Rat(total)),
       trade |-> [side |-> "BUY", size |-> trade_qty,
                  price |-> Round(exec_price, 4), pnl |-> Round(Zero, 2)]]

\* lines 136-146: the state after a SELL of -trade_qty shares
Sell(request, c, held, entry, open_price, trade_qty) ==
  LET sell_qty == Abs(trade_qty)
      exec_price == RMul(open_price, RSub(One, Slippage(request)))
      proceeds == RSub(RMul(exec_price, Rat(sell_qty)), Commission(request))
      pnl == IF entry # None THEN RMul(RSub(exec_price, entry), Rat(sell_qty)) ELSE Zero
      left == held - sell_qty
  IN  [cash |-> RAdd(c, proceeds),
       shares |-> IF left <= 0 THEN 0 ELSE left,
       entry_price |-> IF left <= 0 THEN None ELSE entry,
       trade |-> [side |-> "SELL", size |-> sell_qty,
                  price |-> Round(exec_price, 4), pnl |-> Round(pnl, 2)]]

SimulateInit ==
  /\ RebalanceIdle /\ WalkForwardIdle /\ OptimizerIdle /\ RiskParityIdle
  /\ CallIdle /\ RulesIdle
  /\ sim_request \in SimRequests
  /\ sim_idx = 0
  /\ cash = Zero
  /\ shares = 0
  /\ sim_equity = <<>>
  /\ sim_entry_price = None
  /\ trades = <<>>
  /\ sim_pc = "start"

\* lines 74-75: a frame without rows
SimulateEmpty ==
  /\ sim_pc = "start"
  /\ sim_pc' = "empty"
  /\ UNCHANGED <<sim_request, sim_idx, cash, shares, sim_equity, sim_entry_price, trades,
                 rbVars, wfVars, optVars, rpVars, callVars, ruleVars>>

\* lines 77-101: the state before the loop
SimulateBegin ==
  /\ sim_pc = "start"
  /\ cash' = sim_request.initial_capital
  /\ shares' = 0
  /\ sim_entry_price' = None
  /\ trades' = <<>>
  /\ sim_equity' = <<sim_request.initial_capital>>
  /\ sim_idx' = 1
  /\ sim_pc' = "loop"
  /\ UNCHANGED <<sim_request, rbVars, wfVars, optVars, rpVars, callVars, ruleVars>>

\* lines 103-165: one iteration of the loop over the dates
SimulateBar ==
  /\ sim_pc = "loop"
  /\ sim_idx < MaxBars
  /\ \E signal_prev \in BOOLEAN, open_price \in OpenPrices, close_price \in ClosePrices :
       IF ~IsFinite(open_price) \/ ~IsFinite(close_price)
       THEN UNCHANGED <<cash, shares, sim_equity, sim_entry_price, trades>>
       ELSE LET equity == sim_equity[Len(sim_equity)]
                trade_qty == TargetShares(sim_request, equity, shares, signal_prev,
                                          open_price) - shares
            IN  IF trade_qty # 0 /\ RLt(Zero, open_price)
                THEN LET out == IF trade_qty > 0
                                THEN Buy(sim_request, cash, shares, sim_entry_price,
                                         open_price, trade_qty)
                                ELSE Sell(sim_request, cash, shares, sim_entry_price,
                                          open_price, trade_qty)
                     IN  /\ cash' = out.cash
                         /\ shares' = out.shares
                         /\ sim_entry_price' = out.entry_price
                         /\ trades' = Append(trades, out.trade)
                         /\ sim_equity' =
                              Append(sim_equity,
                                     RAdd(out.cash, RMul(Rat(out.shares), close_price)))
                ELSE /\ sim_equity' =
                          Append(sim_equity, RAdd(cash, RMul(Rat(shares), close_price)))
                     /\ UNCHANGED <<cash, shares, sim_entry_price, trades>>
  /\ sim_idx' = sim_idx + 1
  /\ UNCHANGED <<sim_request, sim_pc, rbVars, wfVars, optVars, rpVars, callVars, ruleVars>>

\* lines 167-176: the series are built and returned
SimulateReturn ==
  /\ sim_pc = "loop"
  /\ sim_pc' = "done"
  /\ UNCHANGED <<sim_request, sim_idx, cash, shares, sim_equity, sim_entry_price, trades,
                 rbVars, wfVars, optVars, rpVars, callVars, ruleVars>>

SimulateNext == SimulateEmpty \/ SimulateBegin \/ SimulateBar \/ SimulateReturn

SpecSimulate == SimulateInit /\ [][SimulateNext]_vars

\* C30: in _simulate_strategy, for a max_position_size of at most 1, the
\* cash balance is never negative and the number of shares held is never
\* negative.
C30_CashNeverNegative ==
  (sim_pc \in {"loop", "done"} /\ RLe(sim_request.max_position_size, One))
    => RLe(Zero, cash) /\ shares >= 0

====
